---- MODULE Spec2Model ----
(***************************************************************************)
(* Model of Jira_Issue (src/iJira.py): the change history of one issue,    *)
(* the open-days computation (__calc_time_open) and the time-in-status     *)
(* computation (__calc_time_in_status).                                    *)
(*                                                                         *)
(* Strings are sequences of character codes, so that str.lower() is        *)
(* computed and not assumed.  Instants are whole seconds on the wall clock *)
(* (the digits of a timestamp, its UTC offset dropped as strftime drops    *)
(* it); a Historic_Record keeps its date as text of minute resolution,     *)
(* modelled as a count of minutes.                                         *)
(***************************************************************************)
EXTENDS Integers, Sequences, FiniteSets, TLC

\* ------------------------------------------------------------ bounds
\* Longest change log the tracker records for the issue.
MaxEvents == 3
\* Number of times the clock advances during one aggregation pass.
MaxTicks == 1
\* Changes the tracker records after it has answered jira.issue.
MaxLateEvents == 1
\* Fields of the issue the tracker's users edit after it has answered
\* jira.issue.
MaxLateEdits == 1
\* Longest change log of the seventh input domain.
MaxSpanEvents == 4

\* ------------------------------------------------- program constants
SecondsPerMinute == 60
SecondsPerHour == 3600
SecondsPerDay == 86400
\* timedelta(hours=4), lines 1235 and 1241
CorrectionHours == 4

\* ---------------------------------------------------------- strings
\* 'status'
STATUS == <<115,116,97,116,117,115>>
\* 'in progress', 'in review', 'needs follow up', 'scheduled' (line 1197)
open_status ==
    { <<105,110,32,112,114,111,103,114,101,115,115>>,
      <<105,110,32,114,101,118,105,101,119>>,
      <<110,101,101,100,115,32,102,111,108,108,111,119,32,117,112>>,
      <<115,99,104,101,100,117,108,101,100>> }

\* 'In Progress', 'IN REVIEW', 'Done', 'assignee', 'bob', 'amy', 'To Do'
InProgress == <<73,110,32,80,114,111,103,114,101,115,115>>
INREVIEW == <<73,78,32,82,69,86,73,69,87>>
Done == <<68,111,110,101>>
ASSIGNEE == <<97,115,115,105,103,110,101,101>>
Bob == <<98,111,98>>
Amy == <<97,109,121>>
ToDo == <<84,111,32,68,111>>

\* 'IN PROGRESS', 'in review', 'Needs Follow Up', 'Scheduled', 'Open', 'Backlog'
INPROGRESS == <<73,78,32,80,82,79,71,82,69,83,83>>
inreview == <<105,110,32,114,101,118,105,101,119>>
NeedsFollowUp == <<78,101,101,100,115,32,70,111,108,108,111,119,32,85,112>>
Scheduled == <<83,99,104,101,100,117,108,101,100>>
Open == <<79,112,101,110>>
Backlog == <<66,97,99,107,108,111,103>>

\* 'date', 'duedate', and the date texts '2024-02-01' and '2024-01-15'
DATE == <<100,97,116,101>>
DUEDATE == <<100,117,101,100,97,116,101>>
DueNew == <<50,48,50,52,45,48,50,45,48,49>>
DueOld == <<50,48,50,52,45,48,49,45,49,53>>

\* str.lower() on ASCII text
Lower(s) ==
    [i \in 1..Len(s) |-> IF s[i] >= 65 /\ s[i] <= 90 THEN s[i] + 32 ELSE s[i]]

\* The field name 'status' in other casings: 'Status' and 'STATUS'.
StatusCapitalised == <<83,116,97,116,117,115>>
StatusUpper == <<83,84,65,84,85,83>>

\* Optional values: None is the empty sequence, a value v is <<v>>.
None == <<>>
Some(v) == <<v>>
IsNone(o) == o = <<>>
Val(o) == o[1]

\* ------------------------------------------------------------ inputs
\* The changes the tracker can record: the changed item (field, toString,
\* fromString) and the seconds since the change before it (none, 12 h 30 min
\* 30 s, or 2 days).
RawChanges ==
    { [field |-> STATUS, toString |-> InProgress, fromString |-> ToDo, gap |-> 0],
      [field |-> STATUS, toString |-> InProgress, fromString |-> ToDo, gap |-> 45030],
      [field |-> STATUS, toString |-> InProgress, fromString |-> ToDo, gap |-> 172800],
      [field |-> STATUS, toString |-> Done, fromString |-> InProgress, gap |-> 0],
      [field |-> STATUS, toString |-> Done, fromString |-> InProgress, gap |-> 45030],
      [field |-> STATUS, toString |-> Done, fromString |-> InProgress, gap |-> 172800],
      [field |-> STATUS, toString |-> INREVIEW, fromString |-> ToDo, gap |-> 45030],
      [field |-> ASSIGNEE, toString |-> Bob, fromString |-> Amy, gap |-> 45030] }

\* The changes of the seventh input domain: a change to 'In Progress' or to
\* 'Done', 12 h 30 min 30 s or 2 days after the change before it.
SpanChanges ==
    { [field |-> STATUS, toString |-> InProgress, fromString |-> Done, gap |-> 45030],
      [field |-> STATUS, toString |-> InProgress, fromString |-> Done, gap |-> 172800],
      [field |-> STATUS, toString |-> Done, fromString |-> InProgress, gap |-> 45030],
      [field |-> STATUS, toString |-> Done, fromString |-> InProgress, gap |-> 172800] }

\* The changes of the eighth input domain: to 'In Progress' after 12 h
\* 30 min 30 s, to 'Done' after 2 days or at once, to 'IN REVIEW' after 12 h
\* 30 min 30 s, and of the assignee.
ClockChanges ==
    { [field |-> STATUS, toString |-> InProgress, fromString |-> ToDo, gap |-> 45030],
      [field |-> STATUS, toString |-> Done, fromString |-> InProgress, gap |-> 172800],
      [field |-> STATUS, toString |-> Done, fromString |-> InProgress, gap |-> 0],
      [field |-> STATUS, toString |-> INREVIEW, fromString |-> ToDo, gap |-> 45030],
      [field |-> ASSIGNEE, toString |-> Bob, fromString |-> Amy, gap |-> 45030] }

\* The status labels of the second input domain: the four open labels in
\* several casings, and labels that are not open ('Open' and 'To Do' among
\* them).
StatusLabels ==
    {InProgress, INPROGRESS, inreview, NeedsFollowUp, Scheduled, Open, ToDo, Done}

\* Seconds between two changes of the second input domain.
LabelGap == 45030

\* One changed item of a raw entry of the change log.
Item(field, toString, fromString) ==
    [field |-> field, toString |-> toString, fromString |-> fromString]

\* The raw entries of the third input domain: status changes under field
\* names of several casings, entries without an author, entries whose
\* timestamp does not parse, entries of two changed items, a change of the
\* due date from one date to another, and a change of the due date to a text
\* that is no date.
RawEntries ==
    { [items |-> <<Item(STATUS, InProgress, ToDo)>>, has_author |-> TRUE, created_ok |-> TRUE],
      [items |-> <<Item(STATUS, Done, ToDo)>>, has_author |-> TRUE, created_ok |-> TRUE],
      [items |-> <<Item(StatusCapitalised, InProgress, ToDo)>>, has_author |-> TRUE, created_ok |-> TRUE],
      [items |-> <<Item(StatusUpper, Done, ToDo)>>, has_author |-> TRUE, created_ok |-> TRUE],
      [items |-> <<Item(STATUS, InProgress, ToDo)>>, has_author |-> TRUE, created_ok |-> FALSE],
      [items |-> <<Item(STATUS, Done, ToDo)>>, has_author |-> FALSE, created_ok |-> TRUE],
      [items |-> <<Item(STATUS, InProgress, ToDo)>>, has_author |-> FALSE, created_ok |-> FALSE],
      [items |-> <<Item(ASSIGNEE, Bob, Amy)>>, has_author |-> TRUE, created_ok |-> TRUE],
      [items |-> <<Item(ASSIGNEE, Bob, Amy), Item(STATUS, Done, InProgress)>>,
       has_author |-> TRUE, created_ok |-> TRUE],
      [items |-> <<Item(DUEDATE, DueNew, DueOld)>>,
       has_author |-> TRUE, created_ok |-> TRUE],
      [items |-> <<Item(STATUS, InProgress, ToDo), Item(DUEDATE, Scheduled, None)>>,
       has_author |-> TRUE, created_ok |-> TRUE] }

\* The issue as the tracker returns it, in what may be missing: an optional
\* value is None when the attribute is missing (or, for the assignee and the
\* date of the latest comment, when it is null).
FullIssue ==
    [assignee |-> Some([key |-> "amy", displayName |-> "Amy"]),
     watchers |-> Some(<<"amy", "bob">>),
     comments |-> Some(<<"c1">>),
     issuelinks |-> Some(<<"blocks K-2">>),
     labels |-> Some(<<"l1", "l2">>),
     latest_comment_date |-> Some("2024-01-02")]

RemoteIssues ==
    [assignee : {None, FullIssue.assignee},
     watchers : {None, Some(<<>>), FullIssue.watchers},
     comments : {Some(<<>>), FullIssue.comments},
     issuelinks : {None, FullIssue.issuelinks},
     labels : {Some(<<>>), FullIssue.labels},
     latest_comment_date : {None, FullIssue.latest_comment_date}]

\* The change logs of the fourth input domain: no change, or one change to
\* 'In Progress'.
OptionalLogs ==
    { <<>>,
      <<[created |-> LabelGap, created_ok |-> TRUE, has_author |-> TRUE,
         author |-> Bob, items |-> <<Item(STATUS, InProgress, ToDo)>>]>> }

\* The fifth input domain: two issues, each with a change log of at most
\* MaxPairEvents status changes out of PairChanges.
IssueKeys == {"A", "B"}
MaxPairEvents == 2
PairChanges ==
    { [field |-> STATUS, toString |-> InProgress, fromString |-> ToDo, gap |-> 45030],
      [field |-> STATUS, toString |-> Done, fromString |-> InProgress, gap |-> 172800] }

RECURSIVE RawLogOf(_, _)
RawLogOf(items, last) ==
    IF items = <<>> THEN <<>>
    ELSE LET item == Head(items)
         IN <<[created |-> last + item.gap, created_ok |-> TRUE,
               has_author |-> TRUE, author |-> Bob,
               items |-> <<Item(item.field, item.toString, item.fromString)>>]>>
            \o RawLogOf(Tail(items), last + item.gap)

PairLogs ==
    {RawLogOf(items, 0) :
        items \in UNION {[1..n -> PairChanges] : n \in 0..MaxPairEvents}}

\* The sixth input domain: the tracker behind the interface object. Project
\* P holds P-1 (one status change, one link with an inward issue only, one
\* watcher, comment and component, no label) and P-2 (two status changes,
\* one link with an outward issue only, one label), and at times P-3, whose
\* change log has a timestamp that does not parse; project Q holds no issue.
ProjectKeys == {"P", "Q"}

LinkInward ==
    [id |-> "10", type |-> "Blocks", inward |-> "is blocked by",
     outward |-> "blocks", inwardIssue |-> Some("P-7"), outwardIssue |-> None]
LinkOutward ==
    [id |-> "11", type |-> "Relates", inward |-> "relates to",
     outward |-> "relates to", inwardIssue |-> None, outwardIssue |-> Some("P-8")]
RemoteLinks == {LinkInward, LinkOutward}

RemoteP1 ==
    [key |-> "P-1", project |-> "P",
     log |-> <<[created |-> LabelGap, created_ok |-> TRUE, has_author |-> TRUE,
                author |-> Bob, items |-> <<Item(STATUS, InProgress, ToDo)>>]>>,
     issuelinks |-> <<LinkInward>>,
     watchers |-> <<[key |-> "amy", name |-> "amy", emailAddress |-> "amy@p",
                     displayName |-> "Amy", active |-> TRUE]>>,
     comments |-> <<[id |-> "c1", body |-> "seen"]>>,
     components |-> <<[id |-> "1", name |-> "ui"]>>,
     labels |-> <<>>]
RemoteP2 ==
    [key |-> "P-2", project |-> "P",
     log |-> <<[created |-> LabelGap, created_ok |-> TRUE, has_author |-> TRUE,
                author |-> Amy, items |-> <<Item(STATUS, InProgress, ToDo)>>],
               [created |-> LabelGap + LabelGap, created_ok |-> TRUE,
                has_author |-> TRUE, author |-> Amy,
                items |-> <<Item(STATUS, Done, InProgress)>>]>>,
     issuelinks |-> <<LinkOutward>>, watchers |-> <<>>, comments |-> <<>>,
     components |-> <<>>, labels |-> <<"l1">>]
RemoteP3 ==
    [key |-> "P-3", project |-> "P",
     log |-> <<[created |-> LabelGap, created_ok |-> FALSE, has_author |-> TRUE,
                author |-> Bob, items |-> <<Item(STATUS, Done, ToDo)>>]>>,
     issuelinks |-> <<>>, watchers |-> <<>>, comments |-> <<>>,
     components |-> <<>>, labels |-> <<>>]
TrackerStates ==
    [P : {<<RemoteP1, RemoteP2>>, <<RemoteP1, RemoteP2, RemoteP3>>},
     Q : {<<>>}]

\* At most MaxCalls getter calls are made on the object. Their arguments:
\* limit (None, or one issue) and project_key (None, or project Q).
MaxCalls == 2
Limits == {None, Some(1)}
ProjectArgs == {None, Some("Q")}
\* The interpreter runs the object may live in, as far as the order goes in
\* which they iterate a set of two str.
HashSeeds == {0, 1}
DerivedGetters ==
    {"issue_links", "histories", "comments", "components", "labels",
     "time_in_status", "watchers"}

\* Wall-clock readings at the start of a pass, in seconds after the epoch of
\* the log: 22 h 0 min 47 s, and 10 days 3 h 0 min 17 s.
ClockStarts == {79247, 874817}

\* One advance of the clock, in seconds.
TickSeconds == 45

VARIABLES
    remote_log,        \* the tracker's change log of the issue (raw entries)
    has_changelog,     \* whether the fetched issue carries a changelog at all
    clock,             \* the wall clock, in seconds
    ticks,             \* advances of the clock so far
    pc,                \* position of the aggregation pass
    histories,         \* Jira_Issue.__histories
    historic_records,  \* Jira_Issue.__historic_records
    time_in_status,    \* Jira_Issue.__time_in_status
    open_days,         \* Jira_Issue.__open_days (and issue_record['open_days'])
    today,             \* __calc_time_open: today
    start_date,        \* __calc_time_open: start_date
    end_date,          \* __calc_time_open: end_date
    days_open,         \* __calc_time_open: days_open
    idx,               \* __calc_time_open: idx
    closed_recs,       \* __calc_time_open: closed_recs
    open_recs,         \* __calc_time_open: open_recs
    now_in_status,     \* __calc_time_in_status: the value of datetime.now()
    debug_log,         \* the _log.debug lines 1249, 1261, 1273
    raised,            \* the exception that ended the pass, or "none"
    remote_issue,      \* the optional fields of the issue the tracker returns
    issue_record,      \* Jira_Issue.__issue_record
    fetched,           \* __load_issue: what the tracker has answered so far
    remote_logs,       \* two issues: the tracker's change log of each
    store,             \* two issues: the mutable objects, by address
    attrs,             \* two issues: the attributes of each Jira_Issue built
    stage,             \* two issues: how far the building of each has come
    tracker,           \* iJira: the issues the tracker holds, by project
    active_project_key, \* iJira.__active_project_key
    caches,            \* iJira: __issues and the seven derived collections
    pulled,            \* iJira: the collections a call has pulled so far
    last_call,         \* iJira: the call that ended last, with what it returned; none while a call runs
    calls,             \* iJira: getter calls ended so far
    hash_seed,         \* what fixes the iteration order of a set of str in this run
    call               \* iJira: the getter call that waits for a remote answer

vars == <<remote_log, has_changelog, clock, ticks, pc, histories,
          historic_records, time_in_status, open_days, today, start_date,
          end_date, days_open, idx, closed_recs, open_recs, now_in_status,
          debug_log, raised, remote_issue, issue_record, fetched,
          remote_logs, store,
          attrs, stage, tracker, active_project_key, caches, pulled, last_call,
          calls, hash_seed, call>>

\* The state of the interface object iJira and of the tracker behind it.
cache_vars == <<tracker, active_project_key, caches, pulled, last_call, calls,
                hash_seed, call>>

\* The state of the building of two issues.
pair_vars == <<remote_logs, store, attrs, stage>>

\* The state of the pass over one issue.
pass_vars == <<remote_log, has_changelog, clock, ticks, pc, histories,
               historic_records, time_in_status, open_days, today, start_date,
               end_date, days_open, idx, closed_recs, open_recs, now_in_status,
               debug_log, raised, remote_issue, issue_record, fetched>>

\* --------------------------------------------------------- dates
\* Historic_Record.__init__, line 1727: strptime(...).strftime("%Y/%m/%d %H:%M")
\* keeps the minute and drops the seconds.
FormatMinute(created) == created \div SecondsPerMinute

\* datetime.strptime(updated_date, DATE_FORMAT): the instant of that minute.
ParseDate(updated_date) == updated_date * SecondsPerMinute

\* TimeDelta with total_seconds() in place of .seconds.
TimeDelta_TotalSeconds(a, b) ==
    [days |-> (a - b) \div SecondsPerDay, seconds |-> a - b]

\* TimeDelta with the days rounded to the nearest day, not cut.
TimeDelta_Rounded(a, b) ==
    [days |-> (a - b + (SecondsPerDay \div 2)) \div SecondsPerDay,
     seconds |-> (a - b) % SecondsPerDay]

\* (a - b) as a timedelta: days and seconds, the seconds in 0..86399.
TimeDelta(a, b) ==
    [days |-> (a - b) \div SecondsPerDay, seconds |-> (a - b) % SecondsPerDay]

\* CorrectedDate without the correction.
CorrectedDate_NoCorrection(updated_date) == ParseDate(updated_date)

\* CorrectedDate with timedelta(days=4).
CorrectedDate_Days(updated_date) ==
    ParseDate(updated_date) - CorrectionHours * SecondsPerDay

\* datetime.strptime(updated_date, DATE_FORMAT) - timedelta(hours=4)
CorrectedDate(updated_date) ==
    ParseDate(updated_date) - CorrectionHours * SecondsPerHour

\* ------------------------------------------------ Historic_Record
\* 'date' in self.__field_name, line 1740: sub occurs in text.
Contains(text, sub) ==
    \E i \in 1..(Len(text) - Len(sub) + 1) :
        SubSeq(text, i, i + Len(sub) - 1) = sub

\* The number a text of decimal digits writes.
IsDigits(text) == \A i \in 1..Len(text) : text[i] >= 48 /\ text[i] <= 57
RECURSIVE Number(_)
Number(text) ==
    IF text = <<>> THEN 0
    ELSE Number(SubSeq(text, 1, Len(text) - 1)) * 10 + (text[Len(text)] - 48)

DaysInMonth(year, month) ==
    IF month = 2
    THEN (IF year % 4 = 0 /\ (year % 100 # 0 \/ year % 400 = 0) THEN 29 ELSE 28)
    ELSE IF month \in {4, 6, 9, 11} THEN 30 ELSE 31

\* A text 'YYYY-MM-DD' that names a day a Timestamp can hold.
IsDateText(text) ==
    /\ Len(text) = 10
    /\ text[5] = 45
    /\ text[8] = 45
    /\ IsDigits(SubSeq(text, 1, 4) \o SubSeq(text, 6, 7) \o SubSeq(text, 9, 10))
    /\ Number(SubSeq(text, 1, 4)) \in 1678..2261
    /\ Number(SubSeq(text, 6, 7)) \in 1..12
    /\ Number(SubSeq(text, 9, 10)) \in
           1..DaysInMonth(Number(SubSeq(text, 1, 4)), Number(SubSeq(text, 6, 7)))

\* A text 'HH:MM:SS' that names a time of day.
IsTimeText(text) ==
    /\ Len(text) = 8
    /\ text[3] = 58
    /\ text[6] = 58
    /\ IsDigits(SubSeq(text, 1, 2) \o SubSeq(text, 4, 5) \o SubSeq(text, 7, 8))
    /\ Number(SubSeq(text, 1, 2)) < 24
    /\ Number(SubSeq(text, 4, 5)) < 60
    /\ Number(SubSeq(text, 7, 8)) < 60

\* The texts pd.to_datetime turns into a Timestamp, of the notations the
\* change log of the tracker uses for a date: 'YYYY-MM-DD', and with a time
\* 'YYYY-MM-DD HH:MM:SS' or 'YYYY-MM-DDTHH:MM:SS', with or without a
\* fraction of a second of up to nine digits. On every other text of the
\* input domains (a status label, a name) pd.to_datetime raises.
IsDateTimeText(text) ==
    \/ IsDateText(text)
    \/ /\ Len(text) >= 19
       /\ IsDateText(SubSeq(text, 1, 10))
       /\ text[11] \in {32, 84}
       /\ IsTimeText(SubSeq(text, 12, 19))
       /\ \/ Len(text) = 19
          \/ /\ Len(text) \in 21..29
             /\ text[20] = 46
             /\ IsDigits(SubSeq(text, 21, Len(text)))

RECURSIVE PowerOfTen(_)
PowerOfTen(n) == IF n = 0 THEN 1 ELSE 10 * PowerOfTen(n - 1)

\* pd.to_datetime(text), lines 1743 and 1746, for a text it accepts: the
\* Timestamp, as its calendar fields.
to_datetime(text) ==
    [year |-> Number(SubSeq(text, 1, 4)),
     month |-> Number(SubSeq(text, 6, 7)),
     day |-> Number(SubSeq(text, 9, 10)),
     hour |-> IF Len(text) >= 19 THEN Number(SubSeq(text, 12, 13)) ELSE 0,
     minute |-> IF Len(text) >= 19 THEN Number(SubSeq(text, 15, 16)) ELSE 0,
     second |-> IF Len(text) >= 19 THEN Number(SubSeq(text, 18, 19)) ELSE 0,
     nanosecond |-> IF Len(text) >= 21
                    THEN Number(SubSeq(text, 21, Len(text)))
                         * PowerOfTen(29 - Len(text))
                    ELSE 0]

\* __format_values, lines 1737-1746, on one of the two values: a value that
\* is not None, of a field whose name contains 'date', becomes a Timestamp.
format_value(field_name, value) ==
    IF Contains(field_name, DATE) /\ value # None
    THEN to_datetime(value)
    ELSE value

\* Whether __format_values raises on the value: pd.to_datetime raises a
\* ValueError on a text it cannot read as a date.
ValueRaises(field_name, value) ==
    /\ Contains(field_name, DATE)
    /\ value # None
    /\ ~IsDateTimeText(value)

\* Historic_Record(rec.created, rec.author, item.field, item.toString,
\* item.fromString), lines 1726-1734, when it does not raise.
Historic_Record(date_change, author, field_name, new_value, old_value) ==
    [updated_date |-> FormatMinute(date_change),
     field_name |-> field_name,
     author |-> author,
     new_value |-> format_value(field_name, new_value),
     old_value |-> format_value(field_name, old_value),
     start_date |-> None,
     end_date |-> None]

\* Whether Historic_Record.__init__ raises on item k of the raw entry rec:
\* strptime at line 1727 raises ValueError on a timestamp it cannot parse,
\* pd.to_datetime at lines 1743 and 1746 on a value that is no date.
ItemRaises(rec, k) ==
    \/ ~rec.created_ok
    \/ ValueRaises(rec.items[k].field, rec.items[k].toString)
    \/ ValueRaises(rec.items[k].field, rec.items[k].fromString)

\* Whether the loop of lines 1352-1354 raises on the raw entry rec. Entries
\* without an author never reach the constructor (line 1351).
RaisesOnCreate(rec) ==
    rec.has_author /\ \E k \in 1..Len(rec.items) : ItemRaises(rec, k)

\* Whether the loop of lines 1350-1354 is left by that exception.
LoadRaises(raw) == \E i \in 1..Len(raw) : RaisesOnCreate(raw[i])

\* lines 1352-1354: one record per changed item of the entry rec, up to the
\* first item whose record cannot be created.
ItemRecords(rec) ==
    LET bad == {k \in 1..Len(rec.items) : ItemRaises(rec, k)}
        n == IF bad = {} THEN Len(rec.items)
             ELSE (CHOOSE k \in bad : \A j \in bad : k <= j) - 1
    IN [k \in 1..n |->
           Historic_Record(rec.created, rec.author, rec.items[k].field,
                           rec.items[k].toString, rec.items[k].fromString)]

\* BuildRecords without the test for an author.
RECURSIVE BuildRecords_Unfiltered(_)
BuildRecords_Unfiltered(raw) ==
    IF raw = <<>> THEN <<>>
    ELSE LET rec == Head(raw)
         IN IF \E k \in 1..Len(rec.items) : ItemRaises(rec, k)
            THEN ItemRecords(rec)
            ELSE ItemRecords(rec) \o BuildRecords_Unfiltered(Tail(raw))

\* change_history, lines 1350-1354: the records of every entry that has an
\* author, up to the first item whose record cannot be created.
RECURSIVE BuildRecords(_)
BuildRecords(raw) ==
    IF raw = <<>> THEN <<>>
    ELSE LET rec == Head(raw)
         IN IF RaisesOnCreate(rec) THEN ItemRecords(rec)
            ELSE (IF rec.has_author THEN ItemRecords(rec) ELSE <<>>)
                 \o BuildRecords(Tail(raw))

\* Positions in recs of the records that line 1293 selects.
StatusPositionsExact(recs) ==
    {i \in 1..Len(recs) : recs[i].field_name = STATUS}

\* The k-th smallest element of a set of positions.
RECURSIVE SortedPositions(_)
SortedPositions(S) ==
    IF S = {} THEN <<>>
    ELSE LET m == CHOOSE x \in S : \A y \in S : x <= y
         IN <<m>> \o SortedPositions(S \ {m})

\* set_date_range with start and end exchanged.
set_date_range_Swapped(r, start, end) ==
    [r EXCEPT !.start_date = Some(end), !.end_date = Some(start)]

\* Historic_Record.set_date_range
set_date_range(r, start, end) ==
    [r EXCEPT !.start_date = Some(start), !.end_date = Some(end)]

\* __update_historic_status_records, lines 1285-1314, with now the value
\* datetime.now() returns in it.
RECURSIVE UpdateWalk(_, _, _, _, _, _)
UpdateWalk(recs, pos, k, prev_pos, prev_date, now) ==
    IF k > Len(pos) THEN
        IF Len(pos) > 1
        THEN [recs EXCEPT ![prev_pos] = set_date_range(@, prev_date, now)]
        ELSE recs
    ELSE
        LET p == pos[k]
            single == Len(pos) = 1
            cur_date == IF single THEN now ELSE ParseDate(recs[p].updated_date)
            pdate == IF single THEN ParseDate(recs[p].updated_date) ELSE prev_date
            ppos == IF single THEN p ELSE prev_pos
        IN IF ppos = 0
           THEN UpdateWalk(recs, pos, k + 1, p,
                           ParseDate(recs[p].updated_date), now)
           ELSE UpdateWalk([recs EXCEPT ![ppos] = set_date_range(@, pdate, cur_date)],
                           pos, k + 1, p, cur_date, now)

update_historic_status_records(recs, now) ==
    UpdateWalk(recs, SortedPositions(StatusPositionsExact(recs)), 1, 0, 0, now)

\* change_history reloading on every read.
change_history_Reload(hist, recs, now) ==
    IF LoadRaises(hist)
    THEN [recs |-> BuildRecords(hist), raised |-> "ValueError"]
    ELSE [recs |-> update_historic_status_records(BuildRecords(hist), now),
          raised |-> "none"]

\* The getter change_history, lines 1341-1361, read when __historic_records
\* is recs and datetime.now() would return now: the list after the read, and
\* the exception the read ends with.
change_history(hist, recs, now) ==
    IF recs # <<>> THEN [recs |-> recs, raised |-> "none"]
    ELSE IF LoadRaises(hist)
    THEN [recs |-> BuildRecords(hist), raised |-> "ValueError"]
    ELSE [recs |-> update_historic_status_records(BuildRecords(hist), now),
          raised |-> "none"]

\* ------------------------------------------------ __calc_time_open
\* IsOpenStatus without the lower().
IsOpenStatus_NoLower(new_value) == new_value \in open_status

\* x.new_value.lower() in open_status
IsOpenStatus(new_value) == Lower(new_value) \in open_status

\* [x for x in self.change_history if x.field_name.lower() == 'status']
IsStatusLower(r) == Lower(r.field_name) = STATUS
StatusRecordsLower(recs) == SelectSeq(recs, IsStatusLower)

IsClosedRec(r) == ~IsOpenStatus(r.new_value)
IsOpenRec(r) == IsOpenStatus(r.new_value)

\* CountOpen without the test on open_status.
CountOpen_AnyStatus(recs) == Len(StatusRecordsLower(recs))

\* lines 1208-1210 and 1213-1215
CountClosed(recs) == Len(SelectSeq(StatusRecordsLower(recs), IsClosedRec))
CountOpen(recs) == Len(SelectSeq(StatusRecordsLower(recs), IsOpenRec))

\* TotalRecs as the length of the list.
TotalRecs_Length(closed, open) == closed + open

\* line 1224: the index of the last record of the list
TotalRecs(closed, open) == closed + open - 1

\* ------------------------------------------------ __load_issue
\* len() of the attribute that lines 1026-1062 leave at its empty initial
\* value when the fetch raises AttributeError.
CountOf(opt) == IF IsNone(opt) THEN 0 ELSE Len(Val(opt))

\* The keys lines 1067-1092 and 1101-1107 copy from the fields every issue
\* has; the value the tracker holds for such a field is written as the key.
FieldsBeforeAssignee ==
    {"created_date", "agg_progress", "agg_progress_total", "latest_comment",
     "epic_key", "summary", "priority_type", "project_key", "project_name",
     "progress", "progress_total", "reporter_key", "reporter_name",
     "creator_key", "creator_name", "current_status", "issue_age_txt"}
FieldsAfterAssignee == {"issue_type", "is_subtask", "vote_count"}

\* lines 1067-1092; line 1077 puts None for a missing date of the latest
\* comment.
RecordBeforeAssignee(ri, key) ==
    [k \in FieldsBeforeAssignee |-> k]
    @@ ("issue_key" :> key)
    @@ ("latest_comment_date" :> ri.latest_comment_date)

\* lines 1094-1099: nothing is written when the issue has no assignee.
RecordAssignee(ri) ==
    IF IsNone(ri.assignee) THEN <<>>
    ELSE ("assignee_key" :> Val(ri.assignee).key)
         @@ ("assignee_name" :> Val(ri.assignee).displayName)

\* lines 1101-1107
RecordAfterAssignee(ri) ==
    [k \in FieldsAfterAssignee |-> k]
    @@ ("watcher_count" :> CountOf(ri.watchers))
    @@ ("comment_count" :> CountOf(ri.comments))
    @@ ("linked_issue_count" :> CountOf(ri.issuelinks))
    @@ ("label_count" :> CountOf(ri.labels))

\* load_issue_record with the missing assignee ending the building.
load_issue_record_StopAtAssignee(ri, key) ==
    IF IsNone(ri.assignee) THEN RecordBeforeAssignee(ri, key)
    ELSE RecordBeforeAssignee(ri, key) @@ RecordAssignee(ri)
         @@ RecordAfterAssignee(ri)

\* __issue_record after lines 1067-1107.
load_issue_record(ri, key) ==
    RecordBeforeAssignee(ri, key) @@ RecordAssignee(ri) @@ RecordAfterAssignee(ri)

\* __load_issue has asked the tracker nothing yet.
NotFetched == [issue |-> None, watchers |-> None, comments |-> None]

\* The state of the pass before it starts.
IdlePass ==
    /\ ticks = 0
    /\ pc = "remote"
    /\ histories = <<>>
    /\ historic_records = <<>>
    /\ time_in_status = <<>>
    /\ open_days = 0
    /\ today = 0
    /\ start_date = None
    /\ end_date = None
    /\ days_open = 0
    /\ idx = 0
    /\ closed_recs = 0
    /\ open_recs = 0
    /\ now_in_status = None
    /\ debug_log = <<>>
    /\ raised = "none"
    /\ issue_record = <<>>
    /\ fetched = NotFetched

\* No second issue, and no interface object.
IdlePair ==
    /\ remote_logs = <<>>
    /\ store = <<>>
    /\ attrs = <<>>
    /\ stage = <<>>
    /\ tracker = <<>>
    /\ active_project_key = ""
    /\ caches = <<>>
    /\ pulled = {}
    /\ last_call = <<>>
    /\ calls = 0
    /\ hash_seed = 0
    /\ call = <<>>

Init ==
    /\ remote_log = <<>>
    /\ has_changelog \in BOOLEAN
    /\ clock \in ClockStarts
    /\ remote_issue = FullIssue
    /\ IdlePass
    /\ IdlePair

\* An issue with any of its optional fields missing.
InitOptional ==
    /\ remote_log \in OptionalLogs
    /\ has_changelog \in BOOLEAN
    /\ clock \in ClockStarts
    /\ remote_issue \in RemoteIssues
    /\ IdlePass
    /\ IdlePair

\* The changes the tracker has recorded since it answered jira.issue: the
\* issue object the constructor holds (line 1025) does not have them.
LateEvents ==
    IF IsNone(fetched.issue) \/ IsNone(Val(fetched.issue).histories) THEN 0
    ELSE Len(remote_log) - Len(Val(Val(fetched.issue).histories))

\* The tracker's users can record one more change: at any time, before the
\* constructor asks for the issue, while it waits for an answer, or after.
CanRecordUpTo(longest) ==
    /\ has_changelog
    /\ Len(remote_log) < longest
    /\ IsNone(fetched.issue) \/ LateEvents < MaxLateEvents

CanRecord == CanRecordUpTo(MaxEvents)

\* The tracker records one more change of the issue, not earlier than the last.
RecordChange ==
    /\ CanRecord
    /\ \E item \in RawChanges :
         LET last == IF remote_log = <<>> THEN 0
                     ELSE remote_log[Len(remote_log)].created
         IN remote_log' = Append(remote_log,
                [created |-> last + item.gap, created_ok |-> TRUE,
                 has_author |-> TRUE, author |-> Bob,
                 items |-> <<Item(item.field, item.toString, item.fromString)>>])
    /\ UNCHANGED <<remote_issue, issue_record, fetched, pair_vars, cache_vars>>
    /\ UNCHANGED <<has_changelog, clock, ticks, pc, histories, historic_records,
                   time_in_status, open_days, today, start_date, end_date,
                   days_open, idx, closed_recs, open_recs, now_in_status,
                   debug_log, raised>>

\* The tracker records one more change of SpanChanges.
RecordSpanChange ==
    /\ CanRecordUpTo(MaxSpanEvents)
    /\ \E item \in SpanChanges :
         LET last == IF remote_log = <<>> THEN 0
                     ELSE remote_log[Len(remote_log)].created
         IN remote_log' = Append(remote_log,
                [created |-> last + item.gap, created_ok |-> TRUE,
                 has_author |-> TRUE, author |-> Bob,
                 items |-> <<Item(item.field, item.toString, item.fromString)>>])
    /\ UNCHANGED <<remote_issue, issue_record, fetched, pair_vars, cache_vars>>
    /\ UNCHANGED <<has_changelog, clock, ticks, pc, histories, historic_records,
                   time_in_status, open_days, today, start_date, end_date,
                   days_open, idx, closed_recs, open_recs, now_in_status,
                   debug_log, raised>>

\* The tracker records one more change of ClockChanges.
RecordClockChange ==
    /\ CanRecord
    /\ \E item \in ClockChanges :
         LET last == IF remote_log = <<>> THEN 0
                     ELSE remote_log[Len(remote_log)].created
         IN remote_log' = Append(remote_log,
                [created |-> last + item.gap, created_ok |-> TRUE,
                 has_author |-> TRUE, author |-> Bob,
                 items |-> <<Item(item.field, item.toString, item.fromString)>>])
    /\ UNCHANGED <<remote_issue, issue_record, fetched, pair_vars, cache_vars>>
    /\ UNCHANGED <<has_changelog, clock, ticks, pc, histories, historic_records,
                   time_in_status, open_days, today, start_date, end_date,
                   days_open, idx, closed_recs, open_recs, now_in_status,
                   debug_log, raised>>

\* The tracker records one more status change, to any of StatusLabels, from
\* the status the issue had ('Backlog' at first).
RecordLabelChange ==
    /\ CanRecord
    /\ \E label \in StatusLabels :
         LET last == IF remote_log = <<>> THEN 0
                     ELSE remote_log[Len(remote_log)].created
             from == IF remote_log = <<>> THEN Backlog
                     ELSE remote_log[Len(remote_log)].items[1].toString
         IN remote_log' = Append(remote_log,
                [created |-> last + LabelGap, created_ok |-> TRUE,
                 has_author |-> TRUE, author |-> Bob,
                 items |-> <<Item(STATUS, label, from)>>])
    /\ UNCHANGED <<remote_issue, issue_record, fetched, pair_vars, cache_vars>>
    /\ UNCHANGED <<has_changelog, clock, ticks, pc, histories, historic_records,
                   time_in_status, open_days, today, start_date, end_date,
                   days_open, idx, closed_recs, open_recs, now_in_status,
                   debug_log, raised>>

\* The tracker records one more raw entry of RawEntries.
RecordRawEntry ==
    /\ CanRecord
    /\ \E e \in RawEntries :
         LET last == IF remote_log = <<>> THEN 0
                     ELSE remote_log[Len(remote_log)].created
         IN remote_log' = Append(remote_log,
                [created |-> last + LabelGap, created_ok |-> e.created_ok,
                 has_author |-> e.has_author, author |-> Bob,
                 items |-> e.items])
    /\ UNCHANGED <<remote_issue, issue_record, fetched, pair_vars, cache_vars>>
    /\ UNCHANGED <<has_changelog, clock, ticks, pc, histories, historic_records,
                   time_in_status, open_days, today, start_date, end_date,
                   days_open, idx, closed_recs, open_recs, now_in_status,
                   debug_log, raised>>

\* The fields in which the tracker's issue differs from the issue object the
\* constructor holds since jira.issue answered (line 1025).
LateEdits ==
    IF IsNone(fetched.issue) THEN 0
    ELSE Cardinality({f \in DOMAIN remote_issue :
                         remote_issue[f] # Val(fetched.issue).fields[f]})

\* The tracker's users edit one optional field of the issue: at any time,
\* before the constructor asks for the issue, while it waits for an answer,
\* or after.
EditIssue ==
    /\ IsNone(fetched.issue) \/ LateEdits < MaxLateEdits
    /\ \E ri \in RemoteIssues :
          /\ Cardinality({f \in DOMAIN ri : ri[f] # remote_issue[f]}) = 1
          /\ remote_issue' = ri
    /\ UNCHANGED <<issue_record, fetched, pair_vars, cache_vars>>
    /\ UNCHANGED <<remote_log, has_changelog, clock, ticks, pc, histories,
                   historic_records, time_in_status, open_days, today,
                   start_date, end_date, days_open, idx, closed_recs,
                   open_recs, now_in_status, debug_log, raised>>

\* The clock advances during the pass, before one of its later readings (an
\* advance before the first reading is another value of ClockStarts).
Tick ==
    /\ pc \in {"change_history", "calc_time_in_status"}
    /\ ticks < MaxTicks
    /\ clock' = clock + TickSeconds
    /\ ticks' = ticks + 1
    /\ UNCHANGED <<remote_issue, issue_record, fetched, pair_vars, cache_vars>>
    /\ UNCHANGED <<remote_log, has_changelog, pc, histories, historic_records,
                   time_in_status, open_days, today, start_date, end_date,
                   days_open, idx, closed_recs, open_recs, now_in_status,
                   debug_log, raised>>

\* Jira_Issue.__init__ and __load_issue up to the answer of
\* jira.issue(self.__issue_key, expand='changelog'), lines 978-1025: the
\* local issue holds the change log and the fields as the tracker has them
\* at this moment; an issue without changelog has no such attribute.
LoadIssue ==
    /\ pc = "remote"
    /\ fetched' = [NotFetched EXCEPT !.issue =
                      Some([histories |-> IF has_changelog
                                          THEN Some(remote_log) ELSE None,
                            fields |-> remote_issue])]
    /\ histories' = <<>>
    /\ historic_records' = <<>>
    /\ time_in_status' = <<>>
    /\ open_days' = 0
    /\ pc' = "watchers"
    /\ UNCHANGED <<remote_issue, issue_record, pair_vars, cache_vars>>
    /\ UNCHANGED <<remote_log, has_changelog, clock, ticks, today, start_date,
                   end_date, days_open, idx, closed_recs, open_recs,
                   now_in_status, debug_log, raised>>

\* jira.watchers(issue) answered, lines 1027-1032: self.__watchers is what
\* the tracker holds now (left as it was on AttributeError).
LoadWatchers ==
    /\ pc = "watchers"
    /\ fetched' = [fetched EXCEPT !.watchers = remote_issue.watchers]
    /\ pc' = "comments"
    /\ UNCHANGED <<remote_issue, issue_record, pair_vars, cache_vars>>
    /\ UNCHANGED <<remote_log, has_changelog, clock, ticks, histories,
                   historic_records, time_in_status, open_days, today,
                   start_date, end_date, days_open, idx, closed_recs,
                   open_recs, now_in_status, debug_log, raised>>

\* The fields of the issue as the three requests answered them: the fields
\* of the issue object, with the watchers and comments of their own
\* requests.
Answered(f) ==
    [Val(f.issue).fields EXCEPT !.watchers = f.watchers,
                                !.comments = f.comments]

\* jira.comments(issue) answered, line 1035, and __load_issue up to line
\* 1107, which asks the tracker nothing more: __histories is the change log
\* of the issue object fetched at line 1025 (line 1047; left empty without
\* changelog), and the record is built from that object's fields and the
\* lengths of self.__watchers and self.__comments.
LoadComments ==
    /\ pc = "comments"
    /\ fetched' = [fetched EXCEPT !.comments = remote_issue.comments]
    /\ histories' = IF IsNone(Val(fetched.issue).histories) THEN <<>>
                    ELSE Val(Val(fetched.issue).histories)
    /\ issue_record' = load_issue_record(Answered(fetched'), "A")
    /\ pc' = "calc_time_open"
    /\ UNCHANGED <<remote_issue, pair_vars, cache_vars>>
    /\ UNCHANGED <<remote_log, has_changelog, clock, ticks, historic_records,
                   time_in_status, open_days, today, start_date, end_date,
                   days_open, idx, closed_recs, open_recs, now_in_status,
                   debug_log, raised>>

\* CalcTimeOpenBegin with days_open starting at the one day of line 1265.
CalcTimeOpenBegin_FromOne ==
    /\ pc = "calc_time_open"
    /\ days_open' = 1
    /\ start_date' = None
    /\ end_date' = None
    /\ today' = clock
    /\ pc' = "change_history"
    /\ UNCHANGED <<remote_issue, issue_record, fetched, pair_vars, cache_vars>>
    /\ UNCHANGED <<remote_log, has_changelog, clock, ticks, histories,
                   historic_records, time_in_status, open_days, idx,
                   closed_recs, open_recs, now_in_status, debug_log, raised>>

\* __calc_time_open, lines 1196-1205.
CalcTimeOpenBegin ==
    /\ pc = "calc_time_open"
    /\ days_open' = 0
    /\ start_date' = None
    /\ end_date' = None
    /\ today' = clock
    /\ pc' = "change_history"
    /\ UNCHANGED <<remote_issue, issue_record, fetched, pair_vars, cache_vars>>
    /\ UNCHANGED <<remote_log, has_changelog, clock, ticks, histories,
                   historic_records, time_in_status, open_days, idx,
                   closed_recs, open_recs, now_in_status, debug_log, raised>>

\* The first read of change_history (lines 1341-1361, from line 1208), and the
\* counts of lines 1208-1227.
ChangeHistoryFirstLoad ==
    /\ pc = "change_history"
    /\ LET ch == change_history(histories, historic_records, clock)
           recs == ch.recs
       IN /\ historic_records' = recs
          /\ raised' = ch.raised
          /\ IF ch.raised # "none"
             THEN /\ pc' = "error"
                  /\ UNCHANGED <<closed_recs, open_recs, idx>>
             ELSE /\ closed_recs' = CountClosed(recs)
                  /\ open_recs' = CountOpen(recs)
                  /\ idx' = 0
                  /\ pc' = IF StatusRecordsLower(recs) = <<>>
                           THEN "open_done" ELSE "open_loop"
    /\ UNCHANGED <<remote_issue, issue_record, fetched, pair_vars, cache_vars>>
    /\ UNCHANGED <<remote_log, has_changelog, clock, ticks, histories,
                   time_in_status, open_days, today, start_date, end_date,
                   days_open, now_in_status, debug_log>>

\* One pass of the loop of lines 1230-1279 over the record `status`, from the
\* locals loc = [start_date, end_date, days_open, idx, log]; the result adds
\* brk (the loop was left by break) and raised.
OpenLoopBody(loc, status, n_open, n_closed, tday) ==
    LET is_open == IsOpenStatus(status.new_value)
        s1 == IF is_open /\ IsNone(loc.start_date)
              THEN Some(CorrectedDate(status.updated_date)) ELSE loc.start_date
        e1 == IF ~is_open /\ ~IsNone(loc.start_date)
              THEN Some(CorrectedDate(status.updated_date)) ELSE loc.end_date
        base == [start_date |-> s1, end_date |-> e1, days_open |-> loc.days_open,
                 idx |-> loc.idx, log |-> loc.log, brk |-> FALSE,
                 raised |-> "none"]
    IN IF n_open > 0 /\ n_closed > 0 THEN
          IF ~IsNone(e1) /\ ~IsNone(s1) THEN
             LET d == loc.days_open + TimeDelta(Val(e1), Val(s1)).days
             IN [base EXCEPT !.days_open = d, !.start_date = None,
                             !.end_date = None, !.idx = loc.idx + 1,
                             !.log = Append(loc.log,
                                 [line |-> 1249, idx |-> loc.idx, days_open |-> d])]
          ELSE IF loc.idx = TotalRecs(n_closed, n_open) /\ ~IsNone(s1) THEN
             LET d == loc.days_open + TimeDelta(tday, Val(s1)).days
             IN [base EXCEPT !.days_open = d, !.idx = loc.idx + 1,
                             !.log = Append(loc.log,
                                 [line |-> 1261, idx |-> loc.idx, days_open |-> d])]
          ELSE [base EXCEPT !.idx = loc.idx + 1]
       ELSE IF n_open = 0 /\ n_closed > 0 THEN
          [base EXCEPT !.days_open = loc.days_open + 1, !.brk = TRUE]
       ELSE IF n_open > 0 /\ n_closed = 0 THEN
          IF IsNone(s1)
          THEN [base EXCEPT !.raised = "TypeError", !.brk = TRUE]
          ELSE LET d == loc.days_open + TimeDelta(tday, Val(s1)).days
               IN [base EXCEPT !.days_open = d, !.brk = TRUE,
                               !.log = Append(loc.log,
                                   [line |-> 1273, idx |-> loc.idx, days_open |-> d])]
       ELSE [base EXCEPT !.idx = loc.idx + 1]

\* One iteration of the loop of __calc_time_open.
CalcTimeOpenStep ==
    /\ pc = "open_loop"
    /\ LET hr == StatusRecordsLower(historic_records)
           r == OpenLoopBody([start_date |-> start_date, end_date |-> end_date,
                              days_open |-> days_open, idx |-> idx,
                              log |-> debug_log],
                             hr[idx + 1], open_recs, closed_recs, today)
       IN /\ start_date' = r.start_date
          /\ end_date' = r.end_date
          /\ days_open' = r.days_open
          /\ idx' = r.idx
          /\ debug_log' = r.log
          /\ raised' = r.raised
          /\ pc' = IF r.raised # "none" THEN "error"
                   ELSE IF r.brk \/ r.idx >= Len(hr) THEN "open_done"
                   ELSE "open_loop"
    /\ UNCHANGED <<remote_issue, issue_record, fetched, pair_vars, cache_vars>>
    /\ UNCHANGED <<remote_log, has_changelog, clock, ticks, histories,
                   historic_records, time_in_status, open_days, today,
                   closed_recs, open_recs, now_in_status>>

\* __calc_time_open, line 1282.
CalcTimeOpenEnd ==
    /\ pc = "open_done"
    /\ open_days' = days_open
    /\ issue_record' = ("open_days" :> days_open) @@ issue_record
    /\ pc' = "calc_time_in_status"
    /\ UNCHANGED <<remote_issue, fetched, pair_vars, cache_vars>>
    /\ UNCHANGED <<remote_log, has_changelog, clock, ticks, histories,
                   historic_records, time_in_status, today, start_date,
                   end_date, days_open, idx, closed_recs, open_recs,
                   now_in_status, debug_log, raised>>

\* ------------------------------------------- __calc_time_in_status
\* line 1127
HoursOf(seconds) == seconds \div SecondsPerHour
\* MinutesOf without the % 60.
MinutesOf_NoWrap(seconds) == seconds \div SecondsPerMinute

\* line 1128
MinutesOf(seconds) == (seconds \div SecondsPerMinute) % 60

\* set_time_in_status_record with = in place of +=.
set_time_in_status_record_Assign(tis, status, current_date, previous_date) ==
    LET time_delta == TimeDelta(current_date, previous_date)
    IN [tis EXCEPT ![status] =
           [@ EXCEPT !.days = time_delta.days,
                     !.hours = time_delta.seconds \div SecondsPerHour,
                     !.minutes = (time_delta.seconds \div SecondsPerMinute) % 60]]

\* set_time_in_status_record that carries 60 minutes into an hour and 24
\* hours into a day.
set_time_in_status_record_Carry(tis, status, current_date, previous_date) ==
    LET time_delta == TimeDelta(current_date, previous_date)
        m == tis[status].minutes
             + ((time_delta.seconds \div SecondsPerMinute) % 60)
        h == tis[status].hours + (time_delta.seconds \div SecondsPerHour)
             + (m \div 60)
    IN [tis EXCEPT ![status] =
           [@ EXCEPT !.days = @ + time_delta.days + (h \div 24),
                     !.hours = h % 24,
                     !.minutes = m % 60]]

\* __set_time_in_status_record, lines 1114-1132 (status is a key of tis).
set_time_in_status_record(tis, status, current_date, previous_date) ==
    LET time_delta == TimeDelta(current_date, previous_date)
    IN [tis EXCEPT ![status] =
           [@ EXCEPT !.days = @ + time_delta.days,
                     !.hours = @ + HoursOf(time_delta.seconds),
                     !.minutes = @ + MinutesOf(time_delta.seconds)]]

\* line 1138
IsStatusExact(r) == r.field_name = STATUS
StatusRecordsExact(recs) == SelectSeq(recs, IsStatusExact)

\* StatusSet with the old values seeded too.
StatusSet_WithOld(status_change_records) ==
    {Lower(status_change_records[i].new_value) :
        i \in 1..Len(status_change_records)}
    \cup {Lower(status_change_records[i].old_value) :
        i \in 1..Len(status_change_records)}

\* line 1139
StatusSet(status_change_records) ==
    {Lower(status_change_records[i].new_value) :
        i \in 1..Len(status_change_records)}

\* Prefill that leaves an entry the mapping already has as it is.
Prefill_KeepOld(tis, status_set) ==
    [s \in (DOMAIN tis) \cup status_set |->
        IF s \in DOMAIN tis THEN tis[s]
        ELSE [days |-> 0, hours |-> 0, minutes |-> 0, seconds |-> 0]]

\* lines 1150-1154
Prefill(tis, status_set) ==
    [s \in (DOMAIN tis) \cup status_set |->
        IF s \in status_set
        THEN [days |-> 0, hours |-> 0, minutes |-> 0, seconds |-> 0]
        ELSE tis[s]]

\* The loop of lines 1163-1182 from record k on, and line 1186 after it.
\* prev_status and prev_date are optional values; st = [tis, raised].
RECURSIVE InStatusWalk(_, _, _, _, _, _)
InStatusWalk(recs, k, prev_status, prev_date, st, now) ==
    IF st.raised # "none" THEN st
    ELSE IF k > Len(recs) THEN
        IF Len(recs) > 1 THEN
            IF Val(prev_status) \in DOMAIN st.tis
            THEN [st EXCEPT !.tis = set_time_in_status_record(
                                 st.tis, Val(prev_status), now, Val(prev_date))]
            ELSE [st EXCEPT !.raised = "KeyError"]
        ELSE st
    ELSE
        LET rec == recs[k]
            single == Len(recs) = 1
            cur_date == IF single THEN now ELSE ParseDate(rec.updated_date)
            pdate == IF single THEN Some(ParseDate(rec.updated_date))
                     ELSE prev_date
            pstatus == IF single THEN Some(Lower(rec.new_value))
                       ELSE prev_status
        IN IF IsNone(pstatus)
           THEN InStatusWalk(recs, k + 1, Some(Lower(rec.new_value)),
                             Some(ParseDate(rec.updated_date)), st, now)
           ELSE IF Val(pstatus) \in DOMAIN st.tis
           THEN InStatusWalk(recs, k + 1, Some(Lower(rec.new_value)),
                    Some(cur_date),
                    [st EXCEPT !.tis = set_time_in_status_record(
                                 st.tis, Val(pstatus), cur_date, Val(pdate))],
                    now)
           ELSE [st EXCEPT !.raised = "KeyError"]

\* __calc_time_in_status, lines 1135-1188, with now the value of datetime.now().
calc_time_in_status(tis, recs, now) ==
    LET status_change_records == StatusRecordsExact(recs)
    IN InStatusWalk(status_change_records, 1, None, None,
                    [tis |-> Prefill(tis, StatusSet(status_change_records)),
                     raised |-> "none"],
                    now)

\* __load_issue, line 1111.
CalcTimeInStatus ==
    /\ pc = "calc_time_in_status"
    /\ LET ch == change_history(histories, historic_records, clock)
           r == calc_time_in_status(time_in_status, ch.recs, clock)
       IN /\ historic_records' = ch.recs
          /\ time_in_status' = IF ch.raised = "none" THEN r.tis
                               ELSE time_in_status
          /\ raised' = IF ch.raised = "none" THEN r.raised ELSE ch.raised
          /\ pc' = IF ch.raised = "none" /\ r.raised = "none"
                   THEN "done" ELSE "error"
          /\ now_in_status' = IF StatusRecordsExact(ch.recs) = <<>>
                              THEN None ELSE Some(clock)
    /\ UNCHANGED <<remote_issue, issue_record, fetched, pair_vars, cache_vars>>
    /\ UNCHANGED <<remote_log, has_changelog, clock, ticks, histories,
                   open_days, today, start_date, end_date,
                   days_open, idx, closed_recs, open_recs, debug_log>>

\* __calc_time_in_status, lines 1135-1188, run once more on the issue as the
\* pass left it.
RecalcTimeInStatus ==
    /\ pc = "done"
    /\ LET ch == change_history(histories, historic_records, clock)
           r == calc_time_in_status(time_in_status, ch.recs, clock)
       IN /\ historic_records' = ch.recs
          /\ time_in_status' = r.tis
          /\ raised' = r.raised
          /\ pc' = IF r.raised = "none" THEN "recalculated" ELSE "error"
          /\ now_in_status' = IF StatusRecordsExact(ch.recs) = <<>>
                              THEN None ELSE Some(clock)
    /\ UNCHANGED <<remote_issue, issue_record, fetched, pair_vars, cache_vars>>
    /\ UNCHANGED <<remote_log, has_changelog, clock, ticks, histories,
                   open_days, today, start_date, end_date,
                   days_open, idx, closed_recs, open_recs, debug_log>>

\* A read of change_history after the pass, by a report (lines 322 and 805).
ReadChangeHistory ==
    /\ pc \in {"done", "read"}
    /\ LET ch == change_history(histories, historic_records, clock)
       IN historic_records' = ch.recs
    /\ pc' = "read"
    /\ UNCHANGED <<remote_issue, issue_record, fetched, pair_vars, cache_vars>>
    /\ UNCHANGED <<remote_log, has_changelog, clock, ticks, histories,
                   time_in_status, open_days, today, start_date, end_date,
                   days_open, idx, closed_recs, open_recs, now_in_status,
                   debug_log, raised>>

\* ------------------------------------------------ two issues
\* The loop of lines 1230-1279 from the locals loc on.
RECURSIVE OpenLoop(_, _, _, _, _)
OpenLoop(hr, loc, n_open, n_closed, tday) ==
    IF loc.idx >= Len(hr) THEN loc
    ELSE LET r == OpenLoopBody(loc, hr[loc.idx + 1], n_open, n_closed, tday)
         IN IF r.brk \/ r.raised # "none" THEN r
            ELSE OpenLoop(hr, r, n_open, n_closed, tday)

\* __calc_time_open, lines 1191-1282, over the change history recs with
\* tday the value of datetime.today(): days_open and the exception raised.
calc_time_open(recs, tday) ==
    OpenLoop(StatusRecordsLower(recs),
             [start_date |-> None, end_date |-> None, days_open |-> 0,
              idx |-> 0, log |-> <<>>, brk |-> FALSE, raised |-> "none"],
             CountOpen(recs), CountClosed(recs), tday)

\* NewAddress for attributes that live in the class, one object for all
\* issues.
NewAddress_ClassLevel(st, k) == k

\* The address of the k-th object a constructor creates: an object that is
\* not in the store yet.
NewAddress(st, k) == Cardinality(DOMAIN st) + k

\* Jira_Issue.__init__, lines 978-1016: the issue gets a list and two dicts
\* of its own (lines 992, 997, 1014); __histories only ever names the list
\* the tracker returned and is held by value.
ConstructIssue(i) ==
    /\ stage[i] = "none"
    /\ LET a1 == NewAddress(store, 1)
           a2 == NewAddress(store, 2)
           a3 == NewAddress(store, 3)
       IN /\ store' = (a1 :> <<>>) @@ (a2 :> <<>>) @@ (a3 :> <<>>) @@ store
          /\ attrs' = (i :> [historic_records |-> a1, issue_record |-> a2,
                             time_in_status |-> a3, histories |-> <<>>,
                             open_days |-> 0, fetched |-> NotFetched]) @@ attrs
    /\ stage' = [stage EXCEPT ![i] = "constructed"]
    /\ UNCHANGED <<remote_logs, pass_vars, cache_vars>>

\* The changes the tracker has recorded for issue i since it answered the
\* constructor of i.
LateEventsOf(i) ==
    IF i \notin DOMAIN attrs \/ IsNone(attrs[i].fetched.issue) THEN 0
    ELSE Len(remote_logs[i]) - Len(Val(attrs[i].fetched.issue).histories)

\* The tracker records one more change of issue i, at any time.
RecordChangeOf(i) ==
    /\ Len(remote_logs[i]) < MaxPairEvents
    /\ LateEventsOf(i) < MaxLateEvents
    /\ \E item \in PairChanges :
         LET last == IF remote_logs[i] = <<>> THEN 0
                     ELSE remote_logs[i][Len(remote_logs[i])].created
         IN remote_logs' = [remote_logs EXCEPT ![i] = Append(@,
                [created |-> last + item.gap, created_ok |-> TRUE,
                 has_author |-> TRUE, author |-> Bob,
                 items |-> <<Item(item.field, item.toString, item.fromString)>>])]
    /\ UNCHANGED <<store, attrs, stage, pass_vars, cache_vars>>

\* __load_issue up to the answer of jira.issue, lines 1020-1025: the issue
\* object holds the change log and the fields as the tracker has them now.
LoadIssueOf(i) ==
    /\ stage[i] = "constructed"
    /\ attrs' = [attrs EXCEPT ![i].fetched.issue =
                    Some([histories |-> remote_logs[i], fields |-> remote_issue])]
    /\ stage' = [stage EXCEPT ![i] = "watchers"]
    /\ UNCHANGED <<remote_logs, store, pass_vars, cache_vars>>

\* jira.watchers(issue) answered, lines 1027-1032.
LoadWatchersOf(i) ==
    /\ stage[i] = "watchers"
    /\ attrs' = [attrs EXCEPT ![i].fetched.watchers = remote_issue.watchers]
    /\ stage' = [stage EXCEPT ![i] = "comments"]
    /\ UNCHANGED <<remote_logs, store, pass_vars, cache_vars>>

\* jira.comments(issue) answered, line 1035, and __load_issue up to line
\* 1107: __histories is the change log of the issue object (line 1047) and
\* the record is written into the issue's dict.
LoadCommentsOf(i) ==
    /\ stage[i] = "comments"
    /\ \E f \in {[attrs[i].fetched EXCEPT !.comments = remote_issue.comments]} :
          /\ attrs' = [attrs EXCEPT ![i].fetched = f,
                                    ![i].histories = Val(f.issue).histories]
          /\ store' = [store EXCEPT ![attrs[i].issue_record] =
                          load_issue_record(Answered(f), i) @@ @]
    /\ stage' = [stage EXCEPT ![i] = "loaded"]
    /\ UNCHANGED <<remote_logs, pass_vars, cache_vars>>

\* __load_issue, line 1110.
CalcTimeOpenOf(i) ==
    /\ stage[i] = "loaded"
    /\ LET ch == change_history(attrs[i].histories,
                                store[attrs[i].historic_records], clock)
           r == calc_time_open(ch.recs, clock)
           ok == ch.raised = "none" /\ r.raised = "none"
       IN /\ store' = [store EXCEPT
                          ![attrs[i].historic_records] = ch.recs,
                          ![attrs[i].issue_record] =
                              IF ok THEN ("open_days" :> r.days_open) @@ @
                              ELSE @]
          /\ attrs' = [attrs EXCEPT ![i].open_days =
                          IF ok THEN r.days_open ELSE @]
          /\ stage' = [stage EXCEPT ![i] = IF ok THEN "opened" ELSE "error"]
    /\ UNCHANGED <<remote_logs, pass_vars, cache_vars>>

\* __load_issue, line 1111.
CalcTimeInStatusOf(i) ==
    /\ stage[i] = "opened"
    /\ LET ch == change_history(attrs[i].histories,
                                store[attrs[i].historic_records], clock)
           r == calc_time_in_status(store[attrs[i].time_in_status], ch.recs,
                                    clock)
       IN /\ store' = [store EXCEPT
                          ![attrs[i].historic_records] = ch.recs,
                          ![attrs[i].time_in_status] = r.tis]
          /\ stage' = [stage EXCEPT ![i] =
                          IF r.raised = "none" THEN "done" ELSE "error"]
    /\ UNCHANGED <<remote_logs, attrs, pass_vars, cache_vars>>

\* Two issues to build, none built yet.
InitPair ==
    /\ remote_log = <<>>
    /\ has_changelog = TRUE
    /\ clock \in ClockStarts
    /\ remote_issue = FullIssue
    /\ IdlePass
    /\ remote_logs \in [IssueKeys -> PairLogs]
    /\ store = <<>>
    /\ attrs = <<>>
    /\ stage = [i \in IssueKeys |-> "none"]
    /\ tracker = <<>>
    /\ active_project_key = ""
    /\ caches = <<>>
    /\ pulled = {}
    /\ last_call = <<>>
    /\ calls = 0
    /\ hash_seed = 0
    /\ call = <<>>

\* The building of the two issues, in any order and interleaving.
NextPair ==
    \/ \E i \in IssueKeys : RecordChangeOf(i)
    \/ \E i \in IssueKeys : ConstructIssue(i)
    \/ \E i \in IssueKeys : LoadIssueOf(i)
    \/ \E i \in IssueKeys : LoadWatchersOf(i)
    \/ \E i \in IssueKeys : LoadCommentsOf(i)
    \/ \E i \in IssueKeys : CalcTimeOpenOf(i)
    \/ \E i \in IssueKeys : CalcTimeInStatusOf(i)

SpecPair == InitPair /\ [][NextPair]_vars

\* ------------------------------------------------ iJira
\* Jira_Issue(self.__jira, i.key), line 195: the issue built from what the
\* tracker holds under the key, with now the value of the clock; raised is
\* the exception __init__ ends with.
BuiltIssue(ri, now) ==
    CHOOSE built \in UNION
        {{[raised |-> IF ch.raised # "none" THEN ch.raised
                      ELSE IF op.raised # "none" THEN op.raised ELSE ts.raised,
           issue |-> [key |-> ri.key, project |-> ri.project,
                      change_history |-> ch.recs,
                      time_in_status |-> ts.tis,
                      open_days |-> op.days_open,
                      issue_links |-> ri.issuelinks,
                      watchers |-> ri.watchers,
                      comments |-> ri.comments,
                      components |-> ri.components,
                      labels |-> ri.labels]] :
             op \in {calc_time_open(ch.recs, now)},
             ts \in {calc_time_in_status(<<>>, ch.recs, now)}} :
         ch \in {change_history(ri.log, <<>>, now)}} : TRUE

\* search_issues(f'project = {project_key}', maxResults=limit), line 196.
search_issues(trk, project_key, limit) ==
    SubSeq(trk[project_key], 1,
           IF limit < Len(trk[project_key]) THEN limit ELSE Len(trk[project_key]))

\* search_issues(..., maxResults=1, startAt=0, json_result=True)['total']
search_total(trk, project_key) == Len(trk[project_key])

\* The (issue, item) pairs the two nested loops of a derived getter visit,
\* in order, with items the attribute of the issue the getter loops over.
RECURSIVE Visited(_, _)
Visited(issues, items) ==
    IF issues = <<>> THEN <<>>
    ELSE [k \in 1..Len(items[1]) |-> [issue |-> issues[1], item |-> items[1][k]]]
         \o Visited(Tail(issues), Tail(items))

\* Text a comes before text b in the order of the dictionary.
TextBefore(a, b) ==
    \E k \in 1..Len(b) :
        /\ Len(a) >= k - 1
        /\ SubSeq(a, 1, k - 1) = SubSeq(b, 1, k - 1)
        /\ (Len(a) = k - 1 \/ a[k] < b[k])

\* The statuses of a time_in_status dict in the order items() yields them:
\* the order of insertion, which is the order in which line 1150 iterated
\* a set of str. That order is fixed for one run of the interpreter and
\* differs between runs (the hash of a str is salted per run); seed stands
\* for the run, and the seeds 0 .. n! - 1 give the n! orders of n statuses.
RECURSIVE StatusOrder(_, _)
StatusOrder(statuses, seed) ==
    IF statuses = {} THEN <<>>
    ELSE LET n == Cardinality(statuses)
             s == CHOOSE x \in statuses :
                    Cardinality({y \in statuses : TextBefore(y, x)}) = seed % n
         IN <<s>> \o StatusOrder(statuses \ {s}, seed \div n)

\* inward_key (side "inwardIssue") or outward_key (side "outwardIssue")
\* after the first n links visited, lines 249-250 and 257-260.
RECURSIVE LinkKey(_, _, _)
LinkKey(visited, n, side) ==
    IF n = 0 THEN ""
    ELSE IF ~IsNone(visited[n].item[side]) THEN Val(visited[n].item[side])
         ELSE LinkKey(visited, n - 1, side)


\* The results dict a derived getter builds from the issues get_issues gave
\* it, as the sequence of its rows '1', '2', ...: lines 240-268 (links),
\* 313-335 (histories), 380-394 (comments), 439-453 (components), 498-510
\* (labels), 552-566 (time in status), 613-632 (watchers).
Rows(getter, issues, now, seed) ==
    LET attr == IF getter = "histories" THEN "change_history" ELSE getter
        items == [k \in 1..Len(issues) |->
                    IF getter = "time_in_status"
                    THEN StatusOrder(DOMAIN issues[k].time_in_status, seed)
                    ELSE issues[k][attr]]
    IN CHOOSE results \in {[n \in 1..Len(visited) |->
         LET issue == visited[n].issue
             x == visited[n].item
         IN CASE getter = "issue_links" ->
                   [issue_key |-> issue.key, link_id |-> x.id,
                    link_type |-> x.type, link_inward_desc |-> x.inward,
                    link_outward_desc |-> x.outward,
                    inward_issue_key |-> LinkKey(visited, n, "inwardIssue"),
                    outward_issue_key |-> LinkKey(visited, n, "outwardIssue"),
                    refresh_date |-> now]
              [] getter = "histories" ->
                   [issue_key |-> issue.key, updated_by |-> x.author,
                    date_of_change |-> x.updated_date, field |-> x.field_name,
                    new_value |-> x.new_value, old_value |-> x.old_value,
                    refresh_date |-> now]
              [] getter = "comments" ->
                   [issue_key |-> issue.key, comment_id |-> x.id,
                    comment_body |-> x.body, refresh_date |-> now]
              [] getter = "components" ->
                   [issue_key |-> issue.key, component_id |-> x.id,
                    component_name |-> x.name, refresh_date |-> now]
              [] getter = "labels" ->
                   [issue_key |-> issue.key, label_name |-> x,
                    refresh_date |-> now]
              [] getter = "time_in_status" ->
                   [issue_key |-> issue.key, status |-> x,
                    days |-> issue.time_in_status[x].days,
                    hours |-> issue.time_in_status[x].hours,
                    minutes |-> issue.time_in_status[x].minutes]
              [] getter = "watchers" ->
                   [issue_key |-> issue.key, watcher_key |-> x.key,
                    watcher_name |-> x.name, watcher_email |-> x.emailAddress,
                    watcher_display_name |-> x.displayName,
                    watcher_active |-> x.active, refresh_date |-> now]] :
            visited \in {Visited(issues, items)}} : TRUE

\* The caches of a new iJira object, lines 42-49.
EmptyCaches ==
    [g \in {"issues"} \cup DerivedGetters |-> <<>>]

\* No getter call is running.
NoCall == [pc |-> "idle"]

\* A getter call that has read its arguments and made no remote request.
NewCall(getter, active, limit, project_key, force_refresh) ==
    [getter |-> getter, limit |-> limit, project_key |-> project_key,
     force_refresh |-> force_refresh,
     project |-> IF IsNone(project_key) THEN active ELSE Val(project_key),
     pc |-> "search", lim |-> 0, searches |-> 0, found |-> <<>>, idx |-> 0,
     cur |-> <<>>, fetched |-> <<>>, built |-> <<>>]

\* The issue the tracker holds under a key: none after its removal, when
\* the client answers a request about it with JIRAError.
Held(trk, key) ==
    {ri \in UNION {{trk[p][k] : k \in 1..Len(trk[p])} : p \in ProjectKeys} :
        ri.key = key}

\* The call waits for its next remote request.
Pending(cl) == [done |-> FALSE, call |-> cl]

\* The call ends: the caches it leaves, the collections it pulled, what it
\* returns or raises, and the remote answers it got (the keys the search
\* found and the issues fetched whole).
Outcome(cl, cch, pulled_now, returned, raised_as) ==
    [done |-> TRUE, call |-> NoCall, caches |-> cch, pulled |-> pulled_now,
     result |-> [getter |-> cl.getter, limit |-> cl.limit,
                 project_key |-> cl.project_key,
                 force_refresh |-> cl.force_refresh,
                 searches |-> cl.searches, returned |-> returned,
                 raised |-> raised_as, found |-> cl.found,
                 fetched |-> cl.fetched]]

\* The caches with every derived collection emptied as the issues are stored.
StoreIssues_ResetDerived(cch, issues) ==
    [EmptyCaches EXCEPT !.issues = issues]

\* self.__issues = [...], line 195, once every issue is built.
StoreIssues(cch, issues) ==
    [cch EXCEPT !.issues = issues]

\* The caches with the issues built before the failing one stored.
RaiseInPull_Partial(cch, built) ==
    [cch EXCEPT !.issues = built]

\* An exception inside the list comprehension of lines 195-197 leaves it
\* before self.__issues is assigned.
RaiseInPull(cch, built) ==
    cch

\* get_issues as a derived getter calls it, deciding on the cached list only.
derived_pulls_CachedIssues(cch, force_refresh) ==
    Len(cch.issues) = 0

\* Line 183 as reached from a derived getter, which passes its own
\* force_refresh on (line 240 and its six copies).
derived_pulls(cch, force_refresh) ==
    force_refresh \/ Len(cch.issues) = 0

\* The end of a call that raises nothing: get_issues returns self.__issues
\* (line 206); a derived getter builds its rows from the list get_issues
\* returned, stores them and returns them (lines 240-279). pulled_issues
\* tells whether the call refreshed self.__issues, with the issues built.
Finish(cl, cch, pulled_issues, now, seed) ==
    CHOOSE r \in
        {IF cl.getter = "issues"
         THEN Outcome(cl, stored,
                      IF pulled_issues THEN {"issues"} ELSE {},
                      stored.issues, "none")
         ELSE CHOOSE o \in
                {Outcome(cl, [stored EXCEPT ![cl.getter] = rows],
                         {cl.getter} \cup
                            (IF pulled_issues THEN {"issues"} ELSE {}),
                         rows, "none") :
                    rows \in {Rows(cl.getter, stored.issues, now, seed)}} :
                TRUE :
            stored \in {IF pulled_issues THEN StoreIssues(cch, cl.built)
                        ELSE cch}} : TRUE

\* The end of a call in which a request or a constructor raised.
Raise(cl, cch, raised_as) ==
    Outcome(cl, RaiseInPull(cch, cl.built), {}, <<>>, raised_as)

\* search_issues(f'project = {project_key}', maxResults=limit) answered,
\* lines 195-197: the keys found; the comprehension then asks for the first
\* of them, and ends at once when there is none.
Search(cl, trk, cch, now, seed) ==
    LET hits == search_issues(trk, cl.project, cl.lim)
        cl1 == [cl EXCEPT !.found = [k \in 1..Len(hits) |-> hits[k].key],
                          !.searches = @ + 1, !.pc = "issue", !.idx = 1]
    IN IF Len(hits) = 0 THEN Finish(cl1, cch, TRUE, now, seed)
       ELSE Pending(cl1)

\* get_issues up to the answer of its first remote request, lines 178-197:
\* the count search when limit is None, else the search; no request at all
\* when the cached list is reused.
get_issues(cch, trk, active, limit, project_key, force_refresh, now, seed) ==
    LET cl == NewCall("issues", active, limit, project_key, force_refresh)
    IN IF force_refresh \/ Len(cch.issues) = 0
       THEN IF IsNone(limit)
            THEN Pending([cl EXCEPT !.lim = search_total(trk, cl.project),
                                    !.searches = 1])
            ELSE Search([cl EXCEPT !.lim = Val(limit)], trk, cch, now, seed)
       ELSE Finish(cl, cch, FALSE, now, seed)

\* A derived getter up to the answer of its first remote request:
\* get_issue_links (209-279), get_histories (282-346), get_comments
\* (349-405), get_components (408-464), get_labels (467-521),
\* get_time_in_status (524-577), get_watchers (580-638). Its own count
\* search when limit is None, then get_issues(limit, project_key,
\* force_refresh), which searches unless it reuses the cached list.
get_derived(getter, cch, trk, active, limit, project_key, force_refresh, now, seed) ==
    LET cl == NewCall(getter, active, limit, project_key, force_refresh)
    IN IF force_refresh \/ Len(cch[getter]) = 0
       THEN IF IsNone(limit)
            THEN LET cl1 == [cl EXCEPT !.lim = search_total(trk, cl.project),
                                       !.searches = 1]
                 IN IF derived_pulls(cch, force_refresh) THEN Pending(cl1)
                    ELSE Finish(cl1, cch, FALSE, now, seed)
            ELSE IF derived_pulls(cch, force_refresh)
                 THEN Search([cl EXCEPT !.lim = Val(limit)], trk, cch, now, seed)
                 ELSE Finish(cl, cch, FALSE, now, seed)
       ELSE Outcome(cl, cch, {}, cch[getter], "none")

\* jira.issue(self.__issue_key, expand='changelog') answered, line 1025:
\* the change log, links, components and labels of the issue, or the
\* client's error when the tracker no longer holds the key.
issue(cl, trk, cch) ==
    IF Held(trk, cl.found[cl.idx]) = {} THEN Raise(cl, cch, "JIRAError")
    ELSE CHOOSE r \in
            {Pending([cl EXCEPT !.pc = "watchers",
                                !.cur = [ri EXCEPT !.watchers = <<>>,
                                                   !.comments = <<>>]]) :
                ri \in Held(trk, cl.found[cl.idx])} : TRUE

\* jira.watchers(issue) answered, line 1028; only AttributeError is caught.
watchers(cl, trk, cch) ==
    IF Held(trk, cl.found[cl.idx]) = {} THEN Raise(cl, cch, "JIRAError")
    ELSE CHOOSE r \in
            {Pending([cl EXCEPT !.pc = "comments",
                                !.cur = [@ EXCEPT !.watchers = ri.watchers]]) :
                ri \in Held(trk, cl.found[cl.idx])} : TRUE

\* jira.comments(issue) answered, line 1035, and the rest of the
\* constructor, which makes no remote request (lines 1040-1111): the issue
\* joins the list being built, and the comprehension asks for the next key
\* or ends; an exception of the constructor ends the call.
comments(cl, trk, cch, now, seed) ==
    IF Held(trk, cl.found[cl.idx]) = {} THEN Raise(cl, cch, "JIRAError")
    ELSE CHOOSE r \in UNION
            {{IF b.raised # "none"
              THEN Raise([cl EXCEPT !.fetched = Append(@, whole)], cch, b.raised)
              ELSE IF cl.idx = Len(cl.found)
              THEN Finish([cl EXCEPT !.fetched = Append(@, whole),
                                     !.built = Append(@, b.issue)],
                          cch, TRUE, now, seed)
              ELSE Pending([cl EXCEPT !.fetched = Append(@, whole),
                                      !.built = Append(@, b.issue),
                                      !.cur = <<>>, !.pc = "issue",
                                      !.idx = @ + 1]) :
                b \in {BuiltIssue(whole, now)}} :
             whole \in {[cl.cur EXCEPT !.comments = ri.comments] :
                            ri \in Held(trk, cl.found[cl.idx])}} : TRUE

\* active_project_key setter, lines 130-140.
SetActiveProjectKey ==
    /\ calls < MaxCalls
    /\ call = NoCall
    /\ \E key \in ProjectKeys :
        /\ key # active_project_key
        /\ active_project_key' = key
    /\ last_call' = [getter |-> "active_project_key"]
    /\ UNCHANGED <<tracker, caches, pulled, calls, hash_seed, call, pass_vars,
                   pair_vars>>

\* The tracker's users add or remove issue P-3, between two calls or while
\* a call waits for the answer to a remote request.
RemoteChange ==
    /\ calls < MaxCalls
    /\ \E trk \in TrackerStates :
        /\ trk # tracker
        /\ tracker' = trk
    /\ UNCHANGED <<active_project_key, caches, pulled, last_call, calls,
                   hash_seed, call, pass_vars, pair_vars>>

\* What a step of a getter call leaves: the call goes on waiting, or it has
\* ended and the object holds its outcome.
Step(r) ==
    /\ call' = r.call
    /\ IF r.done
       THEN /\ caches' = r.caches
            /\ pulled' = pulled \cup r.pulled
            /\ last_call' = r.result
            /\ calls' = calls + 1
       ELSE /\ last_call' = [getter |-> "none"]
            /\ UNCHANGED <<caches, pulled, calls>>
    /\ UNCHANGED <<tracker, active_project_key, hash_seed, pass_vars,
                   pair_vars>>

\* A call of get_issues starts, lines 163-206.
GetIssues ==
    /\ calls < MaxCalls
    /\ call = NoCall
    /\ \E limit \in Limits, project_key \in ProjectArgs,
          force_refresh \in BOOLEAN :
        \E r \in {get_issues(caches, tracker, active_project_key, limit,
                              project_key, force_refresh, clock, hash_seed)} :
            Step(r)

\* A call of one of the seven derived getters starts.
GetDerived ==
    /\ calls < MaxCalls
    /\ call = NoCall
    /\ \E getter \in DerivedGetters, limit \in Limits,
          project_key \in ProjectArgs, force_refresh \in BOOLEAN :
        \E r \in {get_derived(getter, caches, tracker, active_project_key,
                               limit, project_key, force_refresh, clock,
                               hash_seed)} :
            Step(r)

\* The tracker answers the search of the running call.
JiraSearch ==
    /\ call.pc = "search"
    /\ \E r \in {Search(call, tracker, caches, clock, hash_seed)} : Step(r)

\* The tracker answers the running call's request for an issue.
JiraIssue ==
    /\ call.pc = "issue"
    /\ \E r \in {issue(call, tracker, caches)} : Step(r)

\* The tracker answers the running call's request for the issue's watchers.
JiraWatchers ==
    /\ call.pc = "watchers"
    /\ \E r \in {watchers(call, tracker, caches)} : Step(r)

\* The tracker answers the running call's request for the issue's comments.
JiraComments ==
    /\ call.pc = "comments"
    /\ \E r \in {comments(call, tracker, caches, clock, hash_seed)} : Step(r)

\* An iJira object after construction, its project key P, no getter called
\* yet; no single issue is under construction outside it.
InitCache ==
    /\ IdlePass
    /\ remote_log = <<>>
    /\ has_changelog = TRUE
    /\ remote_issue = FullIssue
    /\ remote_logs = <<>>
    /\ store = <<>>
    /\ attrs = <<>>
    /\ stage = <<>>
    /\ clock = 874817
    /\ tracker \in TrackerStates
    /\ active_project_key = "P"
    /\ caches = EmptyCaches
    /\ pulled = {}
    /\ last_call = [getter |-> "none"]
    /\ calls = 0
    /\ hash_seed \in HashSeeds
    /\ call = NoCall

NextCache ==
    \/ SetActiveProjectKey
    \/ RemoteChange
    \/ GetIssues
    \/ GetDerived
    \/ JiraSearch
    \/ JiraIssue
    \/ JiraWatchers
    \/ JiraComments

SpecCache == InitCache /\ [][NextCache]_vars

\* The pass over change logs of RawChanges, the clock standing still.
Next ==
    \/ RecordChange
    \/ LoadIssue
    \/ LoadWatchers
    \/ LoadComments
    \/ CalcTimeOpenBegin
    \/ ChangeHistoryFirstLoad
    \/ CalcTimeOpenStep
    \/ CalcTimeOpenEnd
    \/ CalcTimeInStatus
    \/ ReadChangeHistory

Spec == Init /\ [][Next]_vars

\* The pass over change logs of status changes with varied labels.
NextLabels ==
    \/ RecordLabelChange
    \/ LoadIssue
    \/ LoadWatchers
    \/ LoadComments
    \/ CalcTimeOpenBegin
    \/ ChangeHistoryFirstLoad
    \/ CalcTimeOpenStep
    \/ CalcTimeOpenEnd
    \/ CalcTimeInStatus
    \/ ReadChangeHistory

SpecLabels == Init /\ [][NextLabels]_vars

\* The pass over change logs of raw entries of every kind.
NextEntries ==
    \/ RecordRawEntry
    \/ LoadIssue
    \/ LoadWatchers
    \/ LoadComments
    \/ CalcTimeOpenBegin
    \/ ChangeHistoryFirstLoad
    \/ CalcTimeOpenStep
    \/ CalcTimeOpenEnd
    \/ CalcTimeInStatus
    \/ ReadChangeHistory

SpecEntries == Init /\ [][NextEntries]_vars

\* The pass over an issue with optional fields missing.
NextOptional ==
    \/ EditIssue
    \/ LoadIssue
    \/ LoadWatchers
    \/ LoadComments
    \/ CalcTimeOpenBegin
    \/ ChangeHistoryFirstLoad
    \/ CalcTimeOpenStep
    \/ CalcTimeOpenEnd
    \/ CalcTimeInStatus
    \/ ReadChangeHistory

SpecOptional == InitOptional /\ [][NextOptional]_vars

\* The pass with the clock advancing between its readings.
NextClock ==
    \/ RecordClockChange
    \/ Tick
    \/ LoadIssue
    \/ LoadWatchers
    \/ LoadComments
    \/ CalcTimeOpenBegin
    \/ ChangeHistoryFirstLoad
    \/ CalcTimeOpenStep
    \/ CalcTimeOpenEnd
    \/ CalcTimeInStatus
    \/ ReadChangeHistory

SpecClock == Init /\ [][NextClock]_vars

\* The pass over change logs of up to MaxSpanEvents changes between an open
\* and a closed status, the clock standing still.
NextSpans ==
    \/ RecordSpanChange
    \/ LoadIssue
    \/ LoadWatchers
    \/ LoadComments
    \/ CalcTimeOpenBegin
    \/ ChangeHistoryFirstLoad
    \/ CalcTimeOpenStep
    \/ CalcTimeOpenEnd
    \/ CalcTimeInStatus
    \/ ReadChangeHistory

SpecSpans == Init /\ [][NextSpans]_vars

\* The pass with the clock standing still, and the time-in-status
\* computation run a second time after it.
NextRecalc ==
    \/ RecordChange
    \/ LoadIssue
    \/ LoadWatchers
    \/ LoadComments
    \/ CalcTimeOpenBegin
    \/ ChangeHistoryFirstLoad
    \/ CalcTimeOpenStep
    \/ CalcTimeOpenEnd
    \/ CalcTimeInStatus
    \/ RecalcTimeInStatus

SpecRecalc == Init /\ [][NextRecalc]_vars

\* =========================================================== properties
\* The status events of a change log: its entries whose field is 'status',
\* each with its timestamp (the instant of its minute, in seconds) and its
\* new status.
StatusItemEvents(e) ==
    LET st == SelectSeq(e.items, LAMBDA it : it.field = STATUS)
    IN [k \in 1..Len(st) |-> [timestamp |-> (e.created \div 60) * 60,
                              new_value |-> st[k].toString]]

RECURSIVE StatusEventsOf(_)
StatusEventsOf(log) ==
    IF log = <<>> THEN <<>>
    ELSE (IF Head(log).has_author THEN StatusItemEvents(Head(log)) ELSE <<>>)
         \o StatusEventsOf(Tail(log))

\* The status events of the issue: those of the change log the constructor
\* fetched (self.__histories, line 1047), whatever the tracker has recorded
\* since.
Events == StatusEventsOf(histories)

\* The status events the tracker holds now.
TrackerEvents == StatusEventsOf(remote_log)

\* OPEN-classified: the label, lower-cased, is one of the four open labels.
ClassifiedOpen(label) == Lower(label) \in open_status
NumOpen(E) == Cardinality({i \in 1..Len(E) : ClassifiedOpen(E[i].new_value)})
NumClosed(E) == Cardinality({i \in 1..Len(E) : ~ClassifiedOpen(E[i].new_value)})

\* The decomposition of a span of seconds.
SpanDays(span) == span \div 86400
SpanHours(span) == (span % 86400) \div 3600
SpanMinutes(span) == ((span % 86400) \div 60) % 60

\* The end of the span that event i opens, under evaluation instant N.
SpanEnd(E, i, N) == IF i < Len(E) THEN E[i + 1].timestamp ELSE N

\* The open-days computation has delivered its result.
OpenDaysDone == pc \in {"calc_time_in_status", "done"}

RECURSIVE TotalMinutes(_, _)
TotalMinutes(tis, S) ==
    IF S = {} THEN 0
    ELSE LET s == CHOOSE x \in S : TRUE
         IN tis[s].days * 1440 + tis[s].hours * 60 + tis[s].minutes
            + TotalMinutes(tis, S \ {s})

\* C1: with two or more status events, after the time-in-status computation
\* the entries' days*1440 + hours*60 + minutes add up to the whole minutes
\* (floor) from the first status event to the evaluation instant.
C1_SumIsElapsedMinutes ==
    (pc = "done" /\ Len(Events) >= 2) =>
        TotalMinutes(time_in_status, DOMAIN time_in_status)
            = (Val(now_in_status) - Events[1].timestamp) \div 60

C1_Witness ==
    /\ pc = "done"
    /\ Len(Events) >= 3
    /\ Cardinality(DOMAIN time_in_status) >= 2
    /\ Val(now_in_status) >= Events[Len(Events)].timestamp
    /\ (Val(now_in_status) - Events[1].timestamp) % 60 # 0
    /\ TotalMinutes(time_in_status, DOMAIN time_in_status) > 1440

\* The spans credited to status s by events i..Len(E), summed by component.
RECURSIVE Credited(_, _, _, _)
Credited(E, s, N, i) ==
    IF i > Len(E) THEN [days |-> 0, hours |-> 0, minutes |-> 0]
    ELSE LET rest == Credited(E, s, N, i + 1)
             span == SpanEnd(E, i, N) - E[i].timestamp
         IN IF Lower(E[i].new_value) = s
            THEN [days |-> rest.days + SpanDays(span),
                  hours |-> rest.hours + SpanHours(span),
                  minutes |-> rest.minutes + SpanMinutes(span)]
            ELSE rest

EntryIs(entry, c) ==
    /\ entry.days = c.days
    /\ entry.hours = c.hours
    /\ entry.minutes = c.minutes

\* C2: with one or more status events, the entry of every status s is the
\* component-wise sum of the decompositions of the spans from each event
\* whose lower-cased new_value is s to the next event (to the evaluation
\* instant for the last event), and of nothing else.
C2_EntryIsSumOfItsSpans ==
    (pc = "done" /\ Len(Events) >= 1) =>
        /\ \A i \in 1..Len(Events) :
              Lower(Events[i].new_value) \in DOMAIN time_in_status
        /\ \A s \in DOMAIN time_in_status :
              EntryIs(time_in_status[s],
                      Credited(Events, s, Val(now_in_status), 1))

C2_Witness ==
    /\ pc = "done"
    /\ Len(Events) = 3
    /\ Lower(Events[1].new_value) = Lower(Events[3].new_value)
    /\ Lower(Events[1].new_value) # Lower(Events[2].new_value)
    /\ Events[2].timestamp > Events[1].timestamp
    /\ Val(now_in_status) > Events[3].timestamp
    /\ time_in_status[Lower(Events[1].new_value)].days >= 2
    /\ time_in_status[Lower(Events[1].new_value)].minutes >= 1
    /\ time_in_status[Lower(Events[2].new_value)].hours >= 1

\* C3: with exactly one status event, at T with new status S, the mapping has
\* exactly one entry, keyed by S lower-cased, holding the decomposition of
\* N - T.
C3_SingleEvent ==
    (pc = "done" /\ Len(Events) = 1) =>
        LET span == Val(now_in_status) - Events[1].timestamp
        IN /\ DOMAIN time_in_status = {Lower(Events[1].new_value)}
           /\ EntryIs(time_in_status[Lower(Events[1].new_value)],
                      [days |-> SpanDays(span), hours |-> SpanHours(span),
                       minutes |-> SpanMinutes(span)])

C3_Witness ==
    /\ pc = "done"
    /\ Len(Events) = 1
    /\ Len(histories) >= 2
    /\ Len(TrackerEvents) = 2
    /\ Events[1].new_value # Lower(Events[1].new_value)
    /\ time_in_status[Lower(Events[1].new_value)].days >= 1
    /\ time_in_status[Lower(Events[1].new_value)].hours >= 1
    /\ time_in_status[Lower(Events[1].new_value)].minutes >= 1

\* C4: an issue with no status event (no change log at all included) ends
\* with an empty time-in-status mapping and open_days 0, and its pass raises
\* nothing.
C4_NoStatusEvents ==
    Events = <<>> =>
        /\ raised = "none"
        /\ pc # "error"
        /\ OpenDaysDone => open_days = 0 /\ days_open = 0
        /\ pc = "done" => time_in_status = <<>>

C4_Witness ==
    /\ pc = "done"
    /\ ~has_changelog
    /\ Events = <<>>
    /\ open_days = 0

\* C5: status events that are all CLOSED-classified, at least one, give
\* open_days 1.
C5_ClosedOnly ==
    (OpenDaysDone /\ NumClosed(Events) >= 1 /\ NumOpen(Events) = 0) =>
        open_days = 1

C5_Witness ==
    /\ pc = "done"
    /\ NumClosed(Events) >= 2
    /\ NumOpen(Events) = 0
    /\ NumOpen(TrackerEvents) = 1
    /\ Events[2].timestamp - Events[1].timestamp >= 86400
    /\ open_days = 1

\* C6: status events that are all OPEN-classified, at least one, give the
\* whole days (floor) from the first event's timestamp less 4 hours to the
\* evaluation instant.
C6_OpenOnly ==
    (OpenDaysDone /\ NumOpen(Events) >= 1 /\ NumClosed(Events) = 0) =>
        open_days = (today - (Events[1].timestamp - 4 * 3600)) \div 86400

C6_Witness ==
    /\ pc = "done"
    /\ NumOpen(Events) >= 2
    /\ NumClosed(Events) = 0
    /\ NumClosed(TrackerEvents) = 1
    /\ Events[2].timestamp > Events[1].timestamp
    /\ today - Events[1].timestamp < 86400
    /\ today >= Events[2].timestamp
    /\ open_days = 1

\* The whole days of every open span that a CLOSED event ends, in order: a
\* span starts at an OPEN event met while none is active and ends at the next
\* CLOSED event.
RECURSIVE SpanFloors(_, _, _)
SpanFloors(E, i, start) ==
    IF i > Len(E) THEN <<>>
    ELSE IF ClassifiedOpen(E[i].new_value)
    THEN SpanFloors(E, i + 1,
                    IF IsNone(start) THEN Some(E[i].timestamp) ELSE start)
    ELSE IF IsNone(start) THEN SpanFloors(E, i + 1, None)
    ELSE <<(E[i].timestamp - Val(start)) \div 86400>>
         \o SpanFloors(E, i + 1, None)

\* The start of the span still open after the last event, if any.
RECURSIVE TrailingStart(_, _, _)
TrailingStart(E, i, start) ==
    IF i > Len(E) THEN start
    ELSE IF ClassifiedOpen(E[i].new_value)
    THEN TrailingStart(E, i + 1,
                       IF IsNone(start) THEN Some(E[i].timestamp) ELSE start)
    ELSE TrailingStart(E, i + 1, None)

RECURSIVE SumSeq(_)
SumSeq(q) == IF q = <<>> THEN 0 ELSE Head(q) + SumSeq(Tail(q))

\* What each logged line of the given number added to days_open, in order.
RECURSIVE Increments(_, _, _)
Increments(log, line, before) ==
    IF log = <<>> THEN <<>>
    ELSE (IF Head(log).line = line THEN <<Head(log).days_open - before>>
          ELSE <<>>) \o Increments(Tail(log), line, Head(log).days_open)

\* C7: with OPEN and CLOSED events both present, the spans ended by a CLOSED
\* event add, one by one, the floor of (end - start) / 1 day, and when the
\* last event is CLOSED open_days is the sum of these floors.
C7_ClosedSpans ==
    (OpenDaysDone /\ NumOpen(Events) >= 1 /\ NumClosed(Events) >= 1) =>
        /\ Increments(debug_log, 1249, 0) = SpanFloors(Events, 1, None)
        /\ ~ClassifiedOpen(Events[Len(Events)].new_value) =>
              open_days = SumSeq(SpanFloors(Events, 1, None))

C7_Witness ==
    /\ pc = "done"
    /\ Len(Events) = 4
    /\ Events[1].new_value = InProgress
    /\ Events[2].new_value = Done
    /\ Events[3].new_value = InProgress
    /\ Events[4].new_value = Done
    /\ Events[2].timestamp - Events[1].timestamp = 2 * 86400
    /\ Events[4].timestamp - Events[3].timestamp = 2 * 86400
    /\ Increments(debug_log, 1249, 0) = <<2, 2>>
    /\ open_days = 4

\* C8: with OPEN and CLOSED events both present and the last one OPEN, the
\* span still open is closed against the evaluation instant once, when the
\* last event is processed: floor((today - (start - 4 h)) / 1 day) is added
\* there and at no earlier event.
C8_TrailingSpanOnce ==
    LET E == Events
        lines == {k \in 1..Len(debug_log) : debug_log[k].line = 1261}
    IN /\ \A k \in lines : debug_log[k].idx = Len(E) - 1
       /\ Cardinality(lines) <= 1
       /\ (OpenDaysDone /\ NumOpen(E) >= 1 /\ NumClosed(E) >= 1
             /\ ClassifiedOpen(E[Len(E)].new_value)) =>
            /\ Cardinality(lines) = 1
            /\ Increments(debug_log, 1261, 0)
                 = <<(today - (Val(TrailingStart(E, 1, None)) - 4 * 3600))
                        \div 86400>>
            /\ open_days = debug_log[Len(debug_log)].days_open

C8_Witness ==
    /\ pc = "done"
    /\ Len(Events) = 3
    /\ NumClosed(Events) = 1
    /\ ClassifiedOpen(Events[1].new_value)
    /\ ClassifiedOpen(Events[3].new_value)
    /\ Len(debug_log) = 2
    /\ debug_log[1].days_open >= 1
    /\ debug_log[2].line = 1261
    /\ debug_log[2].days_open > debug_log[1].days_open

\* The seconds the issue spent in OPEN-classified statuses up to instant N.
RECURSIVE OpenSeconds(_, _, _)
OpenSeconds(E, N, i) ==
    IF i > Len(E) THEN 0
    ELSE (IF ClassifiedOpen(E[i].new_value)
          THEN SpanEnd(E, i, N) - E[i].timestamp ELSE 0)
         + OpenSeconds(E, N, i + 1)

InstantNotBeforeLast ==
    Len(Events) >= 1 /\ today >= Events[Len(Events)].timestamp

\* C9 as claimed: with the evaluation instant not before the last event,
\* open_days never exceeds the time spent in OPEN-classified statuses.
C9_LowerBound_Claimed ==
    (OpenDaysDone /\ InstantNotBeforeLast) =>
        open_days * 86400 <= OpenSeconds(Events, today, 1)

\* C9 as amended: open_days is a lower bound of the time spent in OPEN
\* statuses when both kinds of event are present and the last is CLOSED; with
\* a span closed against the evaluation instant it exceeds that time by at
\* most 4 hours, and with CLOSED events only it is the one day of convention.
C9_LowerBound_Amended ==
    (OpenDaysDone /\ InstantNotBeforeLast) =>
        LET E == Events
            open == OpenSeconds(E, today, 1)
        IN /\ (NumOpen(E) >= 1 /\ NumClosed(E) >= 1
                 /\ ~ClassifiedOpen(E[Len(E)].new_value)) =>
                   open_days * 86400 <= open
           /\ NumOpen(E) >= 1 => open_days * 86400 <= open + 4 * 3600
           /\ NumOpen(E) = 0 => open_days = 1 /\ open = 0

C9_Witness ==
    /\ pc = "done"
    /\ InstantNotBeforeLast
    /\ NumOpen(Events) >= 1
    /\ NumClosed(Events) = 0
    /\ NumClosed(TrackerEvents) = 1
    /\ open_days * 86400 > OpenSeconds(Events, today, 1)

\* C10 as claimed: after the time-in-status computation every entry's days,
\* hours and minutes are non-negative.
C10_NonNegative_Claimed ==
    pc = "done" =>
        \A s \in DOMAIN time_in_status :
            /\ time_in_status[s].days >= 0
            /\ time_in_status[s].hours >= 0
            /\ time_in_status[s].minutes >= 0

\* C11 as claimed: open_days is never negative.
C11_OpenDaysNonNegative_Claimed ==
    OpenDaysDone => open_days >= 0

\* The four open labels, as section 3 of the spec lists them.
OpenLabels ==
    { <<105,110,32,112,114,111,103,114,101,115,115>>,
      <<105,110,32,114,101,118,105,101,119>>,
      <<110,101,101,100,115,32,102,111,108,108,111,119,32,117,112>>,
      <<115,99,104,101,100,117,108,101,100>> }

IsUpper(c) == c >= 65 /\ c <= 90
IsLowerLetter(c) == c >= 97 /\ c <= 122

\* Two texts that differ at most in the case of their letters.
SameIgnoringCase(a, b) ==
    /\ Len(a) = Len(b)
    /\ \A i \in 1..Len(a) :
          \/ a[i] = b[i]
          \/ IsUpper(a[i]) /\ b[i] = a[i] + 32
          \/ IsUpper(b[i]) /\ a[i] = b[i] + 32

\* OPEN: the label is one of the four open labels in some casing.
OpenLabel(label) == \E o \in OpenLabels : SameIgnoringCase(label, o)

\* The counts of lines 1208-1215 have been taken.
CountsTaken ==
    pc \in {"open_loop", "open_done", "calc_time_in_status", "done"}

\* C12: the open-days computation counts a status event as OPEN exactly when
\* its new_value is, in any casing, one of 'in progress', 'in review', 'needs
\* follow up', 'scheduled', and as CLOSED otherwise ('Open' and 'To Do'
\* included).
C12_Classification ==
    CountsTaken =>
        /\ open_recs = Cardinality({i \in 1..Len(Events) :
                                       OpenLabel(Events[i].new_value)})
        /\ closed_recs = Cardinality({i \in 1..Len(Events) :
                                       ~OpenLabel(Events[i].new_value)})
        /\ \A i \in 1..Len(Events) :
              IsOpenStatus(Events[i].new_value) <=> OpenLabel(Events[i].new_value)

C12_Witness ==
    /\ pc = "done"
    /\ Len(Events) = 3
    /\ Events[1].new_value = Open
    /\ Events[2].new_value = INPROGRESS
    /\ Events[3].new_value = ToDo
    /\ open_recs = 1
    /\ closed_recs = 2
    /\ open_days = 0

HasNoUpper(s) == \A i \in 1..Len(s) : ~IsUpper(s[i])

\* C17: the keys of the time-in-status mapping are exactly the lower-cased
\* new_value labels of the status events: every label has its key, labels
\* that differ only in case share it, and a label seen only as an old_value
\* is no key.
C17_KeySet ==
    pc = "done" =>
        /\ \A i \in 1..Len(Events) :
              \E k \in DOMAIN time_in_status :
                  SameIgnoringCase(k, Events[i].new_value)
        /\ \A k \in DOMAIN time_in_status :
              /\ HasNoUpper(k)
              /\ \E i \in 1..Len(Events) :
                    SameIgnoringCase(k, Events[i].new_value)

C17_Witness ==
    /\ pc = "done"
    /\ Len(Events) = 3
    /\ Events[1].new_value = InProgress
    /\ Events[2].new_value = Open
    /\ Events[3].new_value = INPROGRESS
    /\ histories[1].items[1].fromString = Backlog
    /\ Cardinality(DOMAIN time_in_status) = 2
    /\ Lower(Backlog) \notin DOMAIN time_in_status

\* The end of the interval of the last status record of the change history.
LastIntervalEnd ==
    LET recs == StatusRecordsExact(historic_records)
    IN recs[Len(recs)].end_date

\* C13 as claimed: within one pass the final span of the time-in-status
\* computation, the span that the open-days computation closes against
\* today, and the interval end of the last status event all use one and the
\* same evaluation instant, also when the clock advances during the pass.
C13_OneInstant_Claimed ==
    (pc = "done" /\ Len(Events) >= 1) =>
        /\ now_in_status = Some(today)
        /\ LastIntervalEnd = Some(today)

IsStatusRecord(r) == r.field_name = <<115,116,97,116,117,115>>

\* Every status record of recs holds the interval from its own timestamp to
\* the timestamp of the next status event, the last one to the instant now.
IntervalsAssigned(recs, E, now) ==
    LET sr == SelectSeq(recs, IsStatusRecord)
    IN /\ Len(sr) = Len(E)
       /\ \A k \in 1..Len(sr) :
             /\ sr[k].start_date = Some(E[k].timestamp)
             /\ sr[k].end_date = Some(IF k < Len(sr) THEN E[k + 1].timestamp
                                      ELSE now)

\* C14: when the change history of an issue is loaded, every status event's
\* interval starts at its own timestamp and ends at the next status event's
\* timestamp, and the last one's (the only one's, too) ends at the instant of
\* the load.
C14_IntervalsChain ==
    [][(pc = "change_history" /\ pc' \in {"open_loop", "open_done"}) =>
          IntervalsAssigned(historic_records', Events, clock)]_vars

C14_Witness ==
    /\ pc = "open_loop"
    /\ Len(Events) = 3
    /\ Len(historic_records) = 3
    /\ historic_records[1].end_date = Some(Events[2].timestamp)
    /\ historic_records[2].end_date = Some(Events[3].timestamp)
    /\ historic_records[2].start_date # historic_records[2].end_date
    /\ historic_records[3].end_date = Some(clock)
    /\ clock > Events[3].timestamp
    /\ ticks = 1

\* C15: however often change_history is read, the records of a loaded history
\* never change again: the intervals assigned by the first load stay, and so
\* do timestamp, field name, old and new value and author of every record.
C15_RecordsFrozen ==
    [][historic_records # <<>> => historic_records' = historic_records]_vars

C15_Witness ==
    /\ pc = "read"
    /\ Len(Events) = 2
    /\ Len(historic_records) = 3
    /\ historic_records[1].end_date = Some(Events[2].timestamp)
    /\ \E k \in 1..3 : /\ historic_records[k].end_date = Some(today)
                       /\ historic_records[k].author = Bob
    /\ clock > today

\* C16: the open-days computation, the time-in-status computation and the
\* interval assignment consume the same sequence of events, whatever the
\* letter-casing of the field names.
C16_SameEvents_Claimed ==
    pc = "done" =>
        StatusRecordsLower(historic_records) = StatusRecordsExact(historic_records)

\* The entries of the fetched change log whose timestamp does not parse.
BadEvents == {i \in 1..Len(histories) : ~histories[i].created_ok}

\* C19 as claimed: when any change event of the issue has a timestamp that
\* does not parse, the pass ends with the error: it never gets to the walks,
\* and open_days and the time-in-status mapping keep their initial values.
C19_FatalTimestamp_Claimed ==
    BadEvents # {} =>
        /\ pc \in {"calc_time_open", "change_history", "error"}
        /\ pc = "error" => raised = "ValueError"
        /\ open_days = 0
        /\ time_in_status = <<>>
        /\ now_in_status = None

RecordBuilt == pc \notin {"remote", "watchers", "comments"}
PassDone == pc \in {"done", "read"}
RequiredKeys ==
    FieldsBeforeAssignee \cup FieldsAfterAssignee
    \cup {"issue_key", "latest_comment_date", "watcher_count", "comment_count",
          "linked_issue_count", "label_count"}
AssigneeKeys == {"assignee_key", "assignee_name"}
NoneOrEmpty(opt) == IsNone(opt) \/ Val(opt) = <<>>

\* C18: an issue that answers the constructor's requests without assignee,
\* watchers, comments, labels, links or change log is built without an error: the record has every other key, the
\* counts of what is missing are 0, the assignee keys and the date of the
\* latest comment are absent or None, and without a change log the
\* time-in-status mapping is empty and open_days is 0.
C18_MissingOptional ==
    /\ raised = "none"
    /\ pc # "error"
    /\ RecordBuilt =>
          /\ RequiredKeys \subseteq DOMAIN issue_record
          /\ DOMAIN issue_record \subseteq
                 RequiredKeys \cup AssigneeKeys \cup {"open_days"}
          /\ NoneOrEmpty(Answered(fetched).watchers) => issue_record["watcher_count"] = 0
          /\ NoneOrEmpty(Answered(fetched).comments) => issue_record["comment_count"] = 0
          /\ NoneOrEmpty(Answered(fetched).issuelinks) => issue_record["linked_issue_count"] = 0
          /\ NoneOrEmpty(Answered(fetched).labels) => issue_record["label_count"] = 0
          /\ IsNone(Answered(fetched).assignee) <=> AssigneeKeys \cap DOMAIN issue_record = {}
          /\ IsNone(Answered(fetched).latest_comment_date) =>
                 issue_record["latest_comment_date"] = None
    /\ PassDone =>
          /\ "open_days" \in DOMAIN issue_record
          /\ issue_record["open_days"] = open_days
          /\ histories = <<>> =>
                 (time_in_status = <<>> /\ open_days = 0)

C18_Witness ==
    /\ pc = "done"
    /\ ~has_changelog
    /\ remote_log # <<>>
    /\ IsNone(Answered(fetched).assignee)
    /\ IsNone(Answered(fetched).watchers)
    /\ ~IsNone(remote_issue.watchers)
    /\ Answered(fetched).comments = Some(<<>>)
    /\ IsNone(Answered(fetched).issuelinks)
    /\ Answered(fetched).labels = Some(<<>>)
    /\ issue_record["issue_type"] = "issue_type"
    /\ issue_record["vote_count"] = "vote_count"
    /\ issue_record["watcher_count"] = 0
    /\ issue_record["open_days"] = 0
    /\ time_in_status = <<>>

\* What issue i holds: its raw histories, its change history with the
\* intervals, its time-in-status mapping, its open_days and its record.
View(i) ==
    [histories |-> attrs[i].histories,
     change_history |-> store[attrs[i].historic_records],
     time_in_status |-> store[attrs[i].time_in_status],
     open_days |-> attrs[i].open_days,
     record |-> store[attrs[i].issue_record]]

\* What issue i holds when it is built with no other issue around, from what
\* the tracker answered its three requests.
Alone(i) ==
    LET log == Val(attrs[i].fetched.issue).histories
        recs == change_history(log, <<>>, clock).recs
        days == calc_time_open(recs, clock).days_open
    IN [histories |-> log,
        change_history |-> recs,
        time_in_status |-> calc_time_in_status(<<>>, recs, clock).tis,
        open_days |-> days,
        record |-> ("open_days" :> days)
                   @@ load_issue_record(Answered(attrs[i].fetched), i)]

\* C20: a step of the building of one issue leaves everything the other
\* issue holds as it was, and an issue that is done holds what it would hold
\* had it been built alone.
C20_NoSharedState ==
    [][\A i \in IssueKeys :
          /\ (stage[i] # "none" /\ stage'[i] = stage[i]) => View(i)' = View(i)
          /\ stage'[i] = "done" => View(i)' = Alone(i)]_vars

C20_Witness ==
    /\ stage["A"] = "done"
    /\ stage["B"] = "comments"
    /\ Len(View("A").histories) = 1
    /\ Len(remote_logs["A"]) = 2
    /\ Len(remote_logs["B"]) = 2
    /\ View("A") = Alone("A")
    /\ DOMAIN View("A").time_in_status # {}
    /\ View("B").time_in_status = <<>>
    /\ View("A").change_history # View("B").change_history
    /\ View("A").open_days # View("B").open_days

\* The changed items of the entries of log that have an author, in the order
\* of the log, each with the entry it belongs to.
RECURSIVE AuthoredItems(_)
AuthoredItems(log) ==
    IF log = <<>> THEN <<>>
    ELSE LET e == Head(log)
         IN (IF e.has_author
             THEN [k \in 1..Len(e.items) |-> [entry |-> e, item |-> e.items[k]]]
             ELSE <<>>) \o AuthoredItems(Tail(log))

\* The raw change log the constructor fetched.
Fetched == histories

\* What a record holds for a value of the raw item: the Timestamp of the
\* text for a field whose name contains 'date', else the text.
DateOrText(field, value) ==
    IF Contains(field, DATE) /\ value # None THEN to_datetime(value) ELSE value
HistoryLoaded ==
    pc \in {"open_loop", "open_done", "calc_time_in_status", "done", "read"}

\* C29: the change history holds one record per changed item of the entries
\* that have an author, in the order of the raw change log; an entry without
\* an author gives no record, and neither the counts of the open-days
\* computation nor the keys of the time-in-status mapping see its items.
C29_AuthoredItemsOnly ==
    HistoryLoaded =>
        LET ai == AuthoredItems(Fetched)
        IN /\ Len(historic_records) = Len(ai)
           /\ \A n \in 1..Len(ai) :
                 /\ historic_records[n].field_name = ai[n].item.field
                 /\ historic_records[n].new_value =
                        DateOrText(ai[n].item.field, ai[n].item.toString)
                 /\ historic_records[n].old_value =
                        DateOrText(ai[n].item.field, ai[n].item.fromString)
                 /\ historic_records[n].author = ai[n].entry.author
                 /\ historic_records[n].updated_date = ai[n].entry.created \div 60
           /\ open_recs + closed_recs =
                 Cardinality({n \in 1..Len(ai) : Lower(ai[n].item.field) = STATUS})
           /\ pc \in {"done", "read"} =>
                 DOMAIN time_in_status =
                     {Lower(ai[n].item.toString) :
                         n \in {m \in 1..Len(ai) : ai[m].item.field = STATUS}}

C29_Witness ==
    /\ pc = "done"
    /\ Len(histories) = 3
    /\ Len(histories[1].items) = 2
    /\ histories[1].has_author
    /\ ~histories[2].has_author
    /\ ~histories[2].created_ok
    /\ histories[2].items[1].toString = InProgress
    /\ histories[3].has_author
    /\ Len(historic_records) = 3
    /\ historic_records[2].new_value = Done
    /\ DOMAIN time_in_status = {Lower(Done)}
    /\ open_recs = 0
    /\ closed_recs = 1

\* C21: a second run of the time-in-status computation, on the same change
\* history and at the same instant, ends with the mapping the first run left
\* (nothing is added twice) and leaves every record of the history as it was.
C21_SecondRunSame ==
    [][(pc = "done" /\ pc' # "done") =>
          /\ pc' = "recalculated"
          /\ time_in_status' = time_in_status
          /\ historic_records' = historic_records
          /\ now_in_status' = now_in_status]_vars

C21_Witness ==
    /\ pc = "recalculated"
    /\ Len(Events) = 3
    /\ Cardinality(DOMAIN time_in_status) = 2
    /\ \A s \in DOMAIN time_in_status :
          time_in_status[s].days + time_in_status[s].hours >= 1
    /\ \E s \in DOMAIN time_in_status : time_in_status[s].minutes >= 1

\* The number of spans credited to status s: one per status event whose
\* lower-cased new_value is s.
SpansOf(s) == Cardinality({i \in 1..Len(Events) : Lower(Events[i].new_value) = s})

\* The whole days of the spans credited to status s, from event i on.
RECURSIVE SpanDaysOf(_, _)
SpanDaysOf(s, i) ==
    IF i > Len(Events) THEN 0
    ELSE (IF Lower(Events[i].new_value) = s
          THEN SpanDays(SpanEnd(Events, i, Val(now_in_status)) - Events[i].timestamp)
          ELSE 0) + SpanDaysOf(s, i + 1)

\* C28: the entry of a status credited with k spans has hours in 0..23*k and
\* minutes in 0..59*k (at most 23 and 59 for one span), and its days are the
\* whole days of its spans alone: nothing is carried from minutes to hours or
\* from hours to days.
C28_NoCarry ==
    (pc = "done" /\ Len(Events) >= 1) =>
        \A s \in DOMAIN time_in_status :
            /\ time_in_status[s].hours >= 0
            /\ time_in_status[s].hours <= 23 * SpansOf(s)
            /\ time_in_status[s].minutes >= 0
            /\ time_in_status[s].minutes <= 59 * SpansOf(s)
            /\ time_in_status[s].days = SpanDaysOf(s, 1)

C28_Witness ==
    /\ pc = "done"
    /\ Len(Events) = 3
    /\ Val(now_in_status) > Events[3].timestamp
    /\ \E s \in DOMAIN time_in_status :
          /\ SpansOf(s) = 3
          /\ time_in_status[s].hours >= 24
          /\ time_in_status[s].minutes >= 60
          /\ time_in_status[s].days = SpanDaysOf(s, 1)

\* ------------------------------------------------ the interface object
Getters == {"issues"} \cup DerivedGetters

\* The last step of the object was a getter call that returned.
Returned == last_call.getter \in Getters /\ last_call.raised = "none"

RemoteIssuesKnown == {RemoteP1, RemoteP2, RemoteP3}

\* The project an issue or a row of a derived collection comes from.
ProjectOfKey(key) == (CHOOSE ri \in RemoteIssuesKnown : ri.key = key).project
DataProject(getter, x) ==
    ProjectOfKey(IF getter = "issues" THEN x.key ELSE x.issue_key)

\* C24: get_issues(limit=L) returns at most L issues, whatever calls were
\* made before it.
C24_LimitRespected_Claimed ==
    (Returned /\ last_call.getter = "issues" /\ ~IsNone(last_call.limit)) =>
        Len(last_call.returned) <= Val(last_call.limit)

\* The link of the tracker a row of the links collection was built from.
LinkById(id) == CHOOSE l \in RemoteLinks : l.id = id
OwnKey(link, side) == IF IsNone(link[side]) THEN "" ELSE Val(link[side])

\* C27: in the links collection each row's inward and outward issue keys
\* are those of the row's own link, empty when the link has no such issue.
C27_OwnLinkKeys_Claimed ==
    \A n \in 1..Len(caches.issue_links) :
        LET row == caches.issue_links[n]
            link == LinkById(row.link_id)
        IN /\ row.inward_issue_key = OwnKey(link, "inwardIssue")
           /\ row.outward_issue_key = OwnKey(link, "outwardIssue")

\* C25: a getter call made without a project_key returns data of the
\* project active_project_key names when the call is made (the project of
\* the configuration, or the one the setter was given last), whatever was
\* pulled before the key was set.
C25_SetterSwitchesProject_Claimed ==
    (Returned /\ IsNone(last_call.project_key)) =>
        \A n \in 1..Len(last_call.returned) :
            DataProject(last_call.getter, last_call.returned[n])
                = active_project_key

\* The step ends a getter call.
GetterCall == calls' = calls + 1

\* C22: once a call has pulled a collection, every later call of its getter
\* with force_refresh False makes no remote search and returns the
\* collection pulled before, whatever the earlier pull gave.
C22_PulledOnce_Claimed ==
    [][(/\ GetterCall
        /\ last_call'.getter \in pulled
        /\ ~last_call'.force_refresh)
       => /\ last_call'.raised = "none"
          /\ last_call'.searches = 0
          /\ last_call'.returned = caches[last_call'.getter]
          /\ caches' = caches]_vars

\* What the tracker holds for a call: the project the call names or the
\* active one, and the keys a search with the call's limit finds there.
CallProject(cl, active) ==
    IF IsNone(cl.project_key) THEN active ELSE Val(cl.project_key)
Found(trk, project, limit) ==
    [k \in 1..(IF IsNone(limit) \/ Len(trk[project]) < Val(limit)
               THEN Len(trk[project]) ELSE Val(limit)) |-> trk[project][k].key]
\* The issues built from what the tracker answered for each key.
RECURSIVE IssuesOf(_)
IssuesOf(answers) ==
    IF answers = <<>> THEN <<>>
    ELSE <<BuiltIssue(Head(answers), clock).issue>> \o IssuesOf(Tail(answers))

\* C23: a getter call with force_refresh True runs a fresh pull: it
\* searches the tracker, and when the pull completes the cached issues are
\* those built from what the tracker answered during the call, one for
\* each key the search found in the tracker as it was at some time; a
\* derived getter stores and returns the collection built from them.
C23_ForcedRefresh ==
    [][(GetterCall /\ last_call'.force_refresh)
       => /\ last_call'.searches >= 1
          /\ last_call'.raised = "none" =>
               \A fresh \in {IssuesOf(last_call'.fetched)} :
                  /\ \E trk \in TrackerStates :
                        last_call'.found =
                            Found(trk,
                                  CallProject(last_call', active_project_key),
                                  last_call'.limit)
                  /\ Len(last_call'.fetched) = Len(last_call'.found)
                  /\ \A k \in 1..Len(last_call'.fetched) :
                        /\ last_call'.fetched[k] \in RemoteIssuesKnown
                        /\ last_call'.fetched[k].key = last_call'.found[k]
                  /\ caches'.issues = fresh
                  /\ last_call'.getter = "issues" =>
                       last_call'.returned = fresh
                  /\ last_call'.getter \in DerivedGetters =>
                       /\ caches'[last_call'.getter]
                            = Rows(last_call'.getter, fresh, clock, hash_seed)
                       /\ last_call'.returned = caches'[last_call'.getter]]_vars

\* A derived getter was forced on a project with issues after an earlier
\* call, and returned rows.
C23_Witness ==
    /\ calls >= 2
    /\ Returned
    /\ last_call.force_refresh
    /\ last_call.getter \in DerivedGetters
    /\ Len(last_call.returned) > 0
    /\ Len(caches.issues) = 2

\* C26: a call of get_issues leaves the seven derived collections as they
\* are, and a derived collection changes only at the end of a call of its
\* own getter that is forced or found it empty.
C26_DerivedFrame ==
    [][/\ (GetterCall /\ last_call'.getter = "issues") =>
            \A g \in DerivedGetters : caches'[g] = caches[g]
       /\ \A g \in DerivedGetters :
            caches'[g] # caches[g] =>
                /\ GetterCall
                /\ last_call'.getter = g
                /\ last_call'.force_refresh \/ Len(caches[g]) = 0]_vars

\* A forced get_issues replaced the issues while a derived collection
\* pulled earlier is still cached.
C26_Witness ==
    /\ Returned
    /\ last_call.getter = "issues"
    /\ last_call.force_refresh
    /\ Len(caches.issues) > 0
    /\ \E g \in DerivedGetters : Len(caches[g]) > 0

\* The call runs the refresh of get_issues.
Refreshes(cl, cch) ==
    /\ cl.force_refresh \/ Len(cch.issues) = 0
    /\ cl.getter \in DerivedGetters =>
         cl.force_refresh \/ Len(cch[cl.getter]) = 0

\* The building of an issue raised: the tracker no longer held a key the
\* search had found, or the constructor raised on what the tracker answered.
BuildRaises(cl) ==
    \/ Len(cl.fetched) < Len(cl.found)
    \/ \E k \in 1..Len(cl.fetched) :
            BuiltIssue(cl.fetched[k], clock).raised # "none"

\* C30: when the building of an issue raises during a refresh of
\* get_issues, the call ends with that error and the cached issues and
\* every derived collection stay as they were; a call raises in no other
\* case.
C30_FailedRefresh ==
    [][GetterCall =>
        /\ (Refreshes(last_call', caches) /\ BuildRaises(last_call'))
              <=> last_call'.raised # "none"
        /\ last_call'.raised # "none" => caches' = caches]_vars

\* A refresh failed after it had built two issues, while the object held
\* issues from an earlier pull.
C30_Witness ==
    /\ last_call.getter \in Getters
    /\ last_call.raised # "none"
    /\ Len(last_call.fetched) >= 2
    /\ Len(caches.issues) > 0

====
